---- MODULE Spec2Model ----
(***************************************************************************)
(* Claim model of plasma_protocol: ClaimValue::merge (claims/values.rs)    *)
(* and ClaimSet::merge / ClaimSet::filtered_subset (claims/subsets.rs).    *)
(*                                                                         *)
(* A HashMap is a function whose DOMAIN is the set of keys present.        *)
(* Option<NonZeroUnixMillis> is a number, None being 0 (the niche of the   *)
(* non-zero type).                                                         *)
(***************************************************************************)
EXTENDS Integers, Sequences, FiniteSets, TLC

VARIABLES
    claims,        \* the ClaimSet of the authoritative store
    clock,         \* the last reading of NonZeroUnixMillis::now()
    calls,         \* the ClaimSet::merge calls made so far, with their results
    redeliveries,  \* how many of the latest calls repeat the call before them
    cell,          \* one ClaimValue merged in isolation, with the merges applied to it
    server         \* a game server synchronizing its local ClaimSubset with the store

vars == <<claims, clock, calls, redeliveries, cell, server>>

\* ------------------------------------------------------------------ bounds
MaxValue == 2
MaxTime == 2
MaxMerges == 2
MaxRedeliveries == 1
MaxClaims == 1
MaxUpdates == 1
MaxSegments == 5
MaxSku == 3
MaxMade == 2
MaxNibble == 15
MaxOffset == 20
MaxPair == 2

\* ------------------------------------------------------------- value types
None == 0
MIN == 1
MAX == MaxTime + 2

ClaimAggregation == {"Max", "Min", "New"}
ClaimScope == {"Global", "Game", "Realm"}
GameId == {"g1", "g2"}
RealmId == {"r1", "r2"}

ClaimKey(name, aggregation) == [name |-> name, aggregation |-> aggregation]
GameClaimKey(game_id, key) == [game_id |-> game_id, key |-> key]
RealmClaimKey(realm_id, key) == [realm_id |-> realm_id, key |-> key]
ScopeClaimKey(scope, key) == [scope |-> scope, key |-> key]

streak == ScopeClaimKey("Global", ClaimKey("streak", "Max"))
rank == ScopeClaimKey("Game", ClaimKey("rank", "New"))
high_score == ScopeClaimKey("Game", ClaimKey("high_score", "Max"))
best_lap == ScopeClaimKey("Realm", ClaimKey("best_lap", "Min"))

ScopeKeys == {streak, rank, high_score, best_lap}

Times == MIN..MaxTime
Expirations == {None} \cup Times
ClaimValue == [date_expires : Expirations, date_updated : Times, value : 1..MaxValue]

EmptyMap == << >>
ClaimSet_default == [game |-> EmptyMap, global |-> EmptyMap, realm |-> EmptyMap]
ClaimSubset_default == [claims |-> EmptyMap, date_synchronized |-> MIN]

Least(S) == CHOOSE x \in S : \A y \in S : x <= y
Greatest(S) == CHOOSE x \in S : \A y \in S : x >= y

\* ------------------------------------------------------- ClaimValue::merge
\* Mutant: every aggregation is decided by the timestamps, like New.
replace_by_date(self, new, aggregation) ==
    new.date_updated >= self.date_updated

\* Mutant: under New an incoming value with an equal timestamp is rejected.
replace_strictly_newer(self, new, aggregation) ==
    CASE aggregation = "New" -> new.date_updated > self.date_updated
      [] aggregation = "Min" -> new.value < self.value
      [] aggregation = "Max" -> new.value > self.value

\* Mutant: Max keeps the lesser and Min the greater magnitude.
replace_inverted(self, new, aggregation) ==
    CASE aggregation = "New" -> new.date_updated >= self.date_updated
      [] aggregation = "Min" -> new.value > self.value
      [] aggregation = "Max" -> new.value < self.value

\* Mutant: under New the incoming value is taken whatever its timestamp.
replace_last_writer(self, new, aggregation) ==
    CASE aggregation = "New" -> TRUE
      [] aggregation = "Min" -> new.value < self.value
      [] aggregation = "Max" -> new.value > self.value

replace(self, new, aggregation) ==
    CASE aggregation = "New" -> new.date_updated >= self.date_updated
      [] aggregation = "Min" -> new.value < self.value
      [] aggregation = "Max" -> new.value > self.value

\* Mutant: reports a change whenever the incoming value is chosen.
ClaimValue_merge_flag_on_replace(self, new, aggregation) ==
    LET r == replace(self, new, aggregation)
        c1 == r /\ new.value # self.value
        c2 == r /\ new.date_updated # self.date_updated
        c3 == (r \/ new.date_updated >= self.date_updated)
              /\ self.date_expires # new.date_expires
    IN [self |-> [value |-> IF c1 THEN new.value ELSE self.value,
                  date_updated |-> IF c2 THEN new.date_updated ELSE self.date_updated,
                  date_expires |-> IF c3 THEN new.date_expires ELSE self.date_expires],
        changed |-> r \/ c3]

\* Mutant: the expiration is taken over only together with the magnitude.
ClaimValue_merge_expiry_on_replace(self, new, aggregation) ==
    LET r == replace(self, new, aggregation)
        c1 == r /\ new.value # self.value
        c2 == r /\ new.date_updated # self.date_updated
        c3 == r /\ self.date_expires # new.date_expires
    IN [self |-> [value |-> IF c1 THEN new.value ELSE self.value,
                  date_updated |-> IF c2 THEN new.date_updated ELSE self.date_updated,
                  date_expires |-> IF c3 THEN new.date_expires ELSE self.date_expires],
        changed |-> c1 \/ c2 \/ c3]

\* Mutant: the later of the two timestamps is kept, whichever magnitude wins.
ClaimValue_merge_latest_date(self, new, aggregation) ==
    LET r == replace(self, new, aggregation)
        c1 == r /\ new.value # self.value
        c2 == new.date_updated > self.date_updated
        c3 == (r \/ new.date_updated >= self.date_updated)
              /\ self.date_expires # new.date_expires
    IN [self |-> [value |-> IF c1 THEN new.value ELSE self.value,
                  date_updated |-> IF c2 THEN new.date_updated ELSE self.date_updated,
                  date_expires |-> IF c3 THEN new.date_expires ELSE self.date_expires],
        changed |-> c1 \/ c2 \/ c3]

\* Mutant: a change of date_expires alone is not reported.
ClaimValue_merge_flag_without_expiry(self, new, aggregation) ==
    LET r == replace(self, new, aggregation)
        c1 == r /\ new.value # self.value
        c2 == r /\ new.date_updated # self.date_updated
        c3 == (r \/ new.date_updated >= self.date_updated)
              /\ self.date_expires # new.date_expires
    IN [self |-> [value |-> IF c1 THEN new.value ELSE self.value,
                  date_updated |-> IF c2 THEN new.date_updated ELSE self.date_updated,
                  date_expires |-> IF c3 THEN new.date_expires ELSE self.date_expires],
        changed |-> c1 \/ c2]

ClaimValue_merge(self, new, aggregation) ==
    LET r == replace(self, new, aggregation)
        c1 == r /\ new.value # self.value
        c2 == r /\ new.date_updated # self.date_updated
        c3 == (r \/ new.date_updated >= self.date_updated)
              /\ self.date_expires # new.date_expires
    IN [self |-> [value |-> IF c1 THEN new.value ELSE self.value,
                  date_updated |-> IF c2 THEN new.date_updated ELSE self.date_updated,
                  date_expires |-> IF c3 THEN new.date_expires ELSE self.date_expires],
        changed |-> c1 \/ c2 \/ c3]

\* ---------------------------------------------------------- ClaimSubset
\* Mutant: the earliest update of an empty subset is the least timestamp.
first_updated_floor(subset) ==
    IF DOMAIN subset.claims = {} THEN MIN
    ELSE Least({subset.claims[k].date_updated : k \in DOMAIN subset.claims})

first_updated(subset) ==
    IF DOMAIN subset.claims = {} THEN MAX
    ELSE Least({subset.claims[k].date_updated : k \in DOMAIN subset.claims})

\* Mutant: the latest update of an empty subset is the greatest timestamp.
last_updated_ceiling(subset) ==
    IF DOMAIN subset.claims = {} THEN MAX
    ELSE Greatest({subset.claims[k].date_updated : k \in DOMAIN subset.claims})

last_updated(subset) ==
    IF DOMAIN subset.claims = {} THEN MIN
    ELSE Greatest({subset.claims[k].date_updated : k \in DOMAIN subset.claims})

\* ------------------------------------------------- ClaimSet::filtered_subset
\* Mutant: the subset is not tagged with the date_synchronized it was given.
filtered_subset_unsynchronized(self, filter, date_synchronized, game_id, realm_id) ==
    LET gl == {k \in DOMAIN self.global :
                  filter[ScopeClaimKey("Global", k), self.global[k]]}
        ga == {gk \in DOMAIN self.game :
                  gk.game_id = game_id
                  /\ filter[ScopeClaimKey("Game", gk.key), self.game[gk]]}
        re == {rk \in DOMAIN self.realm :
                  rk.key.game_id = game_id /\ rk.realm_id = realm_id
                  /\ filter[ScopeClaimKey("Realm", rk.key.key), self.realm[rk]]}
        keys == {ScopeClaimKey("Global", k) : k \in gl}
                \cup {ScopeClaimKey("Game", gk.key) : gk \in ga}
                \cup {ScopeClaimKey("Realm", rk.key.key) : rk \in re}
    IN [claims |->
            [sk \in keys |->
                CASE sk.scope = "Global" -> self.global[sk.key]
                  [] sk.scope = "Game" -> self.game[GameClaimKey(game_id, sk.key)]
                  [] sk.scope = "Realm" ->
                        self.realm[RealmClaimKey(realm_id, GameClaimKey(game_id, sk.key))]],
        date_synchronized |-> MIN]

\* Mutant: the realm entries of the game are included whatever their realm.
filtered_subset_any_realm(self, filter, date_synchronized, game_id, realm_id) ==
    LET gl == {k \in DOMAIN self.global :
                  filter[ScopeClaimKey("Global", k), self.global[k]]}
        ga == {gk \in DOMAIN self.game :
                  gk.game_id = game_id
                  /\ filter[ScopeClaimKey("Game", gk.key), self.game[gk]]}
        re == {rk \in DOMAIN self.realm :
                  rk.key.game_id = game_id
                  /\ filter[ScopeClaimKey("Realm", rk.key.key), self.realm[rk]]}
        keys == {ScopeClaimKey("Global", k) : k \in gl}
                \cup {ScopeClaimKey("Game", gk.key) : gk \in ga}
                \cup {ScopeClaimKey("Realm", rk.key.key) : rk \in re}
    IN [claims |->
            [sk \in keys |->
                CASE sk.scope = "Global" -> self.global[sk.key]
                  [] sk.scope = "Game" -> self.game[GameClaimKey(game_id, sk.key)]
                  [] sk.scope = "Realm" ->
                        self.realm[CHOOSE rk \in re : rk.key.key = sk.key]],
        date_synchronized |->
            IF date_synchronized = None THEN MIN ELSE date_synchronized]

filtered_subset(self, filter, date_synchronized, game_id, realm_id) ==
    LET gl == {k \in DOMAIN self.global :
                  filter[ScopeClaimKey("Global", k), self.global[k]]}
        ga == {gk \in DOMAIN self.game :
                  gk.game_id = game_id
                  /\ filter[ScopeClaimKey("Game", gk.key), self.game[gk]]}
        re == {rk \in DOMAIN self.realm :
                  rk.key.game_id = game_id /\ rk.realm_id = realm_id
                  /\ filter[ScopeClaimKey("Realm", rk.key.key), self.realm[rk]]}
        keys == {ScopeClaimKey("Global", k) : k \in gl}
                \cup {ScopeClaimKey("Game", gk.key) : gk \in ga}
                \cup {ScopeClaimKey("Realm", rk.key.key) : rk \in re}
    IN [claims |->
            [sk \in keys |->
                CASE sk.scope = "Global" -> self.global[sk.key]
                  [] sk.scope = "Game" -> self.game[GameClaimKey(game_id, sk.key)]
                  [] sk.scope = "Realm" ->
                        self.realm[RealmClaimKey(realm_id, GameClaimKey(game_id, sk.key))]],
        date_synchronized |->
            IF date_synchronized = None THEN MIN ELSE date_synchronized]

subset(self, game_id, realm_id) ==
    filtered_subset(self, [k \in ScopeKeys, v \in ClaimValue |-> TRUE], None, game_id, realm_id)

\* ------------------------------------------------------- derived queries
\* (magnitude, Some(date_updated)) of an entry, (0, None) without one.
ValueAndDate(map, k) ==
    IF k \in DOMAIN map THEN <<map[k].value, map[k].date_updated>> ELSE <<0, None>>

\* Mutant: high_score looks the rank key up.
ClaimSet_high_score_of_rank(self, game_id) ==
    ValueAndDate(self.game, GameClaimKey(game_id, rank.key))

ClaimSet_high_score(self, game_id) ==
    ValueAndDate(self.game, GameClaimKey(game_id, high_score.key))

ClaimSet_rank(self, game_id) ==
    ValueAndDate(self.game, GameClaimKey(game_id, rank.key))

ClaimSet_streak(self) ==
    IF streak.key \in DOMAIN self.global THEN self.global[streak.key].value ELSE 0

public_claims(self, game_id) ==
    [date_high_score |-> ClaimSet_high_score(self, game_id)[2],
     date_rank |-> ClaimSet_rank(self, game_id)[2],
     high_score |-> ClaimSet_high_score(self, game_id)[1],
     rank |-> ClaimSet_rank(self, game_id)[1],
     streak |-> ClaimSet_streak(self)]

\* --------------------------------------------------------- ClaimSet::merge
\* Mutant: nothing ever expires.
retain_everything(value, now) == TRUE

\* Mutant: a value whose date_expires equals `now` is dropped as well.
retain_strictly_later(value, now) ==
    ~(value.date_expires # None /\ value.date_expires <= now)

\* The closure `retain` of merge: keep a value unless it has expired.
retain(value, now) ==
    ~(value.date_expires # None /\ value.date_expires < now)

Retained(map, now) ==
    [k \in {k \in DOMAIN map : retain(map[k], now)} |-> map[k]]

\* Mutant: the realm partition is not swept.
Expire_skip_realm(self, now) ==
    [game |-> Retained(self.game, now),
     global |-> Retained(self.global, now),
     realm |-> self.realm]

\* The three retain() sweeps over global, game and realm.
Expire(self, now) ==
    [game |-> Retained(self.game, now),
     global |-> Retained(self.global, now),
     realm |-> Retained(self.realm, now)]

\* The partition and the key inside it that a scoped key resolves to.
Partition(scope) ==
    CASE scope = "Global" -> "global"
      [] scope = "Game" -> "game"
      [] scope = "Realm" -> "realm"

\* Mutant: a Game-scoped key is resolved without the caller's game.
EntryKey_first_game(scope_key, game_id, realm_id) ==
    CASE scope_key.scope = "Global" -> scope_key.key
      [] scope_key.scope = "Game" -> GameClaimKey("g1", scope_key.key)
      [] scope_key.scope = "Realm" ->
            RealmClaimKey(realm_id, GameClaimKey(game_id, scope_key.key))

EntryKey(scope_key, game_id, realm_id) ==
    CASE scope_key.scope = "Global" -> scope_key.key
      [] scope_key.scope = "Game" -> GameClaimKey(game_id, scope_key.key)
      [] scope_key.scope = "Realm" ->
            RealmClaimKey(realm_id, GameClaimKey(game_id, scope_key.key))

Put(map, k, v) == [x \in DOMAIN map \cup {k} |-> IF x = k THEN v ELSE map[x]]

\* Mutant: the two branches on `occupied == value` are exchanged.
MergeEntry_swapped(acc, scope_key, value, game_id, realm_id) ==
    LET p == Partition(scope_key.scope)
        k == EntryKey(scope_key, game_id, realm_id)
    IN IF k \notin DOMAIN acc.set[p]
       THEN [acc EXCEPT !.set[p] = Put(@, k, value), !.changed = TRUE]
       ELSE LET m == ClaimValue_merge(acc.set[p][k], value, scope_key.key.aggregation)
            IN [set |-> [acc.set EXCEPT ![p] = Put(@, k, m.self)],
                changed |-> acc.changed \/ m.changed,
                changed_recently |->
                    IF m.self = value
                    THEN acc.changed_recently \cup {scope_key}
                    ELSE acc.changed_recently \ {scope_key}]

\* Mutant: a key whose stored value equals the incoming one is not removed
\* from changed_recently.
MergeEntry_no_remove(acc, scope_key, value, game_id, realm_id) ==
    LET p == Partition(scope_key.scope)
        k == EntryKey(scope_key, game_id, realm_id)
    IN IF k \notin DOMAIN acc.set[p]
       THEN [acc EXCEPT !.set[p] = Put(@, k, value), !.changed = TRUE]
       ELSE LET m == ClaimValue_merge(acc.set[p][k], value, scope_key.key.aggregation)
            IN [set |-> [acc.set EXCEPT ![p] = Put(@, k, m.self)],
                changed |-> acc.changed \/ m.changed,
                changed_recently |->
                    IF m.self = value
                    THEN acc.changed_recently
                    ELSE acc.changed_recently \cup {scope_key}]

\* Mutant: a newly inserted key is also put in changed_recently.
MergeEntry_echo_inserted(acc, scope_key, value, game_id, realm_id) ==
    LET p == Partition(scope_key.scope)
        k == EntryKey(scope_key, game_id, realm_id)
    IN IF k \notin DOMAIN acc.set[p]
       THEN [acc EXCEPT !.set[p] = Put(@, k, value), !.changed = TRUE,
                        !.changed_recently = @ \cup {scope_key}]
       ELSE LET m == ClaimValue_merge(acc.set[p][k], value, scope_key.key.aggregation)
            IN [set |-> [acc.set EXCEPT ![p] = Put(@, k, m.self)],
                changed |-> acc.changed \/ m.changed,
                changed_recently |->
                    IF m.self = value
                    THEN acc.changed_recently \ {scope_key}
                    ELSE acc.changed_recently \cup {scope_key}]

\* Mutant: a key is echoed when the value merge reported a change, whatever
\* the sender sent.
MergeEntry_echo_on_changed(acc, scope_key, value, game_id, realm_id) ==
    LET p == Partition(scope_key.scope)
        k == EntryKey(scope_key, game_id, realm_id)
    IN IF k \notin DOMAIN acc.set[p]
       THEN [acc EXCEPT !.set[p] = Put(@, k, value), !.changed = TRUE]
       ELSE LET m == ClaimValue_merge(acc.set[p][k], value, scope_key.key.aggregation)
            IN [set |-> [acc.set EXCEPT ![p] = Put(@, k, m.self)],
                changed |-> acc.changed \/ m.changed,
                changed_recently |->
                    IF ~m.changed
                    THEN acc.changed_recently \ {scope_key}
                    ELSE acc.changed_recently \cup {scope_key}]

\* Mutant: `occupied == value` compares the magnitudes only.
MergeEntry_compare_magnitude(acc, scope_key, value, game_id, realm_id) ==
    LET p == Partition(scope_key.scope)
        k == EntryKey(scope_key, game_id, realm_id)
    IN IF k \notin DOMAIN acc.set[p]
       THEN [acc EXCEPT !.set[p] = Put(@, k, value), !.changed = TRUE]
       ELSE LET m == ClaimValue_merge(acc.set[p][k], value, scope_key.key.aggregation)
            IN [set |-> [acc.set EXCEPT ![p] = Put(@, k, m.self)],
                changed |-> acc.changed \/ m.changed,
                changed_recently |->
                    IF m.self.value = value.value
                    THEN acc.changed_recently \ {scope_key}
                    ELSE acc.changed_recently \cup {scope_key}]

\* Mutant: an occupied entry is overwritten by the incoming claim.
MergeEntry_overwrite(acc, scope_key, value, game_id, realm_id) ==
    LET p == Partition(scope_key.scope)
        k == EntryKey(scope_key, game_id, realm_id)
    IN IF k \notin DOMAIN acc.set[p]
       THEN [acc EXCEPT !.set[p] = Put(@, k, value), !.changed = TRUE]
       ELSE [set |-> [acc.set EXCEPT ![p] = Put(@, k, value)],
             changed |-> acc.changed \/ acc.set[p][k] # value,
             changed_recently |-> acc.changed_recently \ {scope_key}]

\* Mutant: an insertion does not set `changed`.
MergeEntry_silent_insert(acc, scope_key, value, game_id, realm_id) ==
    LET p == Partition(scope_key.scope)
        k == EntryKey(scope_key, game_id, realm_id)
    IN IF k \notin DOMAIN acc.set[p]
       THEN [acc EXCEPT !.set[p] = Put(@, k, value)]
       ELSE LET m == ClaimValue_merge(acc.set[p][k], value, scope_key.key.aggregation)
            IN [set |-> [acc.set EXCEPT ![p] = Put(@, k, m.self)],
                changed |-> acc.changed \/ m.changed,
                changed_recently |->
                    IF m.self = value
                    THEN acc.changed_recently \ {scope_key}
                    ELSE acc.changed_recently \cup {scope_key}]

\* Mutant: merging into an occupied entry always sets `changed`.
MergeEntry_always_changed(acc, scope_key, value, game_id, realm_id) ==
    LET p == Partition(scope_key.scope)
        k == EntryKey(scope_key, game_id, realm_id)
    IN IF k \notin DOMAIN acc.set[p]
       THEN [acc EXCEPT !.set[p] = Put(@, k, value), !.changed = TRUE]
       ELSE LET m == ClaimValue_merge(acc.set[p][k], value, scope_key.key.aggregation)
            IN [set |-> [acc.set EXCEPT ![p] = Put(@, k, m.self)],
                changed |-> TRUE,
                changed_recently |->
                    IF m.self = value
                    THEN acc.changed_recently \ {scope_key}
                    ELSE acc.changed_recently \cup {scope_key}]

\* Mutant: `changed` is assigned, not accumulated, by the merge of an occupied entry.
MergeEntry_changed_last(acc, scope_key, value, game_id, realm_id) ==
    LET p == Partition(scope_key.scope)
        k == EntryKey(scope_key, game_id, realm_id)
    IN IF k \notin DOMAIN acc.set[p]
       THEN [acc EXCEPT !.set[p] = Put(@, k, value), !.changed = TRUE]
       ELSE LET m == ClaimValue_merge(acc.set[p][k], value, scope_key.key.aggregation)
            IN [set |-> [acc.set EXCEPT ![p] = Put(@, k, m.self)],
                changed |-> m.changed,
                changed_recently |->
                    IF m.self = value
                    THEN acc.changed_recently \ {scope_key}
                    ELSE acc.changed_recently \cup {scope_key}]

\* One iteration of `for (scope_key, value) in &new.claims`.
\* acc = [set, changed, changed_recently].
MergeEntry(acc, scope_key, value, game_id, realm_id) ==
    LET p == Partition(scope_key.scope)
        k == EntryKey(scope_key, game_id, realm_id)
    IN IF k \notin DOMAIN acc.set[p]
       THEN \* Entry::Vacant: insert, changed = true, continue
            [acc EXCEPT !.set[p] = Put(@, k, value), !.changed = TRUE]
       ELSE \* Entry::Occupied
            LET m == ClaimValue_merge(acc.set[p][k], value, scope_key.key.aggregation)
            IN [set |-> [acc.set EXCEPT ![p] = Put(@, k, m.self)],
                changed |-> acc.changed \/ m.changed,
                changed_recently |->
                    IF m.self = value
                    THEN acc.changed_recently \ {scope_key}
                    ELSE acc.changed_recently \cup {scope_key}]

RECURSIVE MergeLoop(_, _, _, _, _)
MergeLoop(acc, new, order, game_id, realm_id) ==
    IF order = << >> THEN acc
    ELSE MergeLoop(MergeEntry(acc, Head(order), new.claims[Head(order)], game_id, realm_id),
                   new, Tail(order), game_id, realm_id)

\* ClaimSet::merge with the clock reading `now` and the iteration order of
\* new.claims (a HashMap) made explicit.  Returns the mutated set, the
\* reply subset and the `changed` flag.
ClaimSet_merge(self, new, game_id, realm_id, now, order) ==
    LET swept == Expire(self, now)
        cutoff == IF first_updated(new) < new.date_synchronized
                  THEN first_updated(new) ELSE new.date_synchronized
        seed == DOMAIN filtered_subset(swept,
                                       [k \in ScopeKeys, v \in ClaimValue |->
                                           v.date_updated > cutoff],
                                       None, game_id, realm_id).claims
        acc == MergeLoop([set |-> swept, changed |-> swept # self,
                          changed_recently |-> seed],
                         new, order, game_id, realm_id)
    IN [set |-> acc.set,
        subset |-> filtered_subset(acc.set,
                                   [k \in ScopeKeys, v \in ClaimValue |->
                                       k \in acc.changed_recently],
                                   new.date_synchronized, game_id, realm_id),
        changed |-> acc.changed]

\* Every order in which a HashMap over `keys` can be iterated.
Orders(keys) ==
    {o \in [1..Cardinality(keys) -> keys] : \A i, j \in 1..Cardinality(keys) : o[i] = o[j] => i = j}

\* ------------------------------------------------------------ the store
Idle == [idle |-> TRUE]

\* Incoming subsets: at most MaxClaims claims over ScopeKeys.
ClaimSubsets ==
    UNION {[claims : [D -> ClaimValue], date_synchronized : Times] :
              D \in {D \in SUBSET ScopeKeys : Cardinality(D) <= MaxClaims}}

\* A call of ClaimSet::merge(new, game_id, realm_id) that reads the clock as t
\* and iterates new.claims in `order`.
Call(new, game_id, realm_id, t, order) ==
    LET res == ClaimSet_merge(claims, new, game_id, realm_id, t, order)
    IN /\ claims' = res.set
       /\ clock' = t
       /\ calls' = Append(calls, [new |-> new, game_id |-> game_id, realm_id |-> realm_id,
                                  now |-> t, old |-> claims, set |-> res.set,
                                  subset |-> res.subset, changed |-> res.changed])

\* A game server of (game_id, realm_id) sends a subset; the store merges it.
Merge ==
    /\ redeliveries = 0
    /\ Len(calls) < MaxMerges
    /\ \E new \in ClaimSubsets, game_id \in GameId, realm_id \in RealmId, t \in clock..MaxTime :
          \E order \in Orders(DOMAIN new.claims) :
              Call(new, game_id, realm_id, t, order)
    /\ redeliveries' = 0
    /\ UNCHANGED <<cell, server>>

\* The at-least-once transport delivers the latest subset again.
Redeliver ==
    /\ calls # << >>
    /\ redeliveries < MaxRedeliveries
    /\ LET last == calls[Len(calls)]
       IN \E t \in clock..MaxTime, order \in Orders(DOMAIN last.new.claims) :
              Call(last.new, last.game_id, last.realm_id, t, order)
    /\ redeliveries' = redeliveries + 1
    /\ UNCHANGED <<cell, server>>

Init ==
    /\ claims = ClaimSet_default
    /\ clock = MIN
    /\ calls = << >>
    /\ redeliveries = 0
    /\ cell = Idle
    /\ server = Idle

Next == Merge \/ Redeliver

Spec == Init /\ [][Next]_vars

\* The same store with a clock that runs past the latest timestamp a claim
\* carries: a merge may read `now` later than every date_updated,
\* date_expires and date_synchronized in play.
MaxNow == MaxTime + 1

MergeLate ==
    /\ Len(calls) < MaxMerges
    /\ \E new \in ClaimSubsets, game_id \in GameId, realm_id \in RealmId, t \in clock..MaxNow :
          \E order \in Orders(DOMAIN new.claims) :
              Call(new, game_id, realm_id, t, order)
    /\ UNCHANGED <<redeliveries, cell, server>>

NextLate == MergeLate

SpecLate == Init /\ [][NextLate]_vars

\* The same store receiving subsets of up to MaxPair claims, whose HashMap
\* can be iterated in more than one order, from the servers of one game and
\* realm.
PairKeys == {streak, rank}

PairSubsets ==
    UNION {[claims : [D -> ClaimValue], date_synchronized : Times] :
              D \in {D \in SUBSET PairKeys : Cardinality(D) <= MaxPair}}

MergePair ==
    /\ Len(calls) < MaxMerges
    /\ \E new \in PairSubsets, t \in clock..MaxTime :
          \E order \in Orders(DOMAIN new.claims) :
              Call(new, "g1", "r1", t, order)
    /\ UNCHANGED <<redeliveries, cell, server>>

NextPair == MergePair

SpecPair == Init /\ [][NextPair]_vars

\* ------------------------------------------- one ClaimValue in isolation
\* A stored value `self` of a key with the given aggregation receives up to
\* MaxMerges incoming values through ClaimValue::merge.
InitValue ==
    /\ claims = ClaimSet_default
    /\ clock = MIN
    /\ calls = << >>
    /\ redeliveries = 0
    /\ server = Idle
    /\ \E self \in ClaimValue, aggregation \in ClaimAggregation :
          cell = [initial |-> self, self |-> self, aggregation |-> aggregation,
                  merged |-> << >>]

MergeValue ==
    /\ Len(cell.merged) < MaxMerges
    /\ \E new \in ClaimValue :
          LET m == ClaimValue_merge(cell.self, new, cell.aggregation)
          IN cell' = [cell EXCEPT !.self = m.self,
                                  !.merged = Append(@, [old |-> cell.self, new |-> new,
                                                        changed |-> m.changed])]
    /\ UNCHANGED <<claims, clock, calls, redeliveries, server>>

NextValue == MergeValue

SpecValue == InitValue /\ [][NextValue]_vars

\* ------------------------------------- a game server synchronizing claims
\* The game server merges every entry of a reply into its local subset with
\* ClaimValue::merge under the key's aggregation; an entry it does not hold
\* yet is taken as it is.
ServerMerge(local, incoming) ==
    [local EXCEPT !.claims =
        [k \in DOMAIN local.claims \cup DOMAIN incoming.claims |->
            IF k \notin DOMAIN incoming.claims THEN local.claims[k]
            ELSE IF k \notin DOMAIN local.claims THEN incoming.claims[k]
            ELSE ClaimValue_merge(local.claims[k], incoming.claims[k],
                                  k.key.aggregation).self]]

\* A server of some game and realm holds a local subset; the store is empty.
\* The clock stands still, so nothing expires.  `sent` is the store and the
\* local subset as they were when the round in progress began, and `stable`
\* tells that the last round left both as they were and no update followed
\* it, so that every further round repeats it until the next update.
InitSync ==
    /\ claims = ClaimSet_default
    /\ clock = MIN
    /\ calls = << >>
    /\ redeliveries = 0
    /\ cell = Idle
    /\ \E game_id \in GameId, realm_id \in RealmId, local \in ClaimSubsets :
          server = [game_id |-> game_id, realm_id |-> realm_id, local |-> local,
                    reply |-> ClaimSubset_default, pc |-> "idle",
                    sent |-> [claims |-> ClaimSet_default, local |-> local],
                    stable |-> FALSE, updates |-> 0]

\* The server sends its local subset; the store merges it and replies.
Send ==
    /\ server # Idle /\ server.pc = "idle"
    /\ \E order \in Orders(DOMAIN server.local.claims) :
          LET res == ClaimSet_merge(claims, server.local, server.game_id,
                                    server.realm_id, clock, order)
          IN /\ claims' = res.set
             /\ server' = [server EXCEPT !.reply = res.subset, !.pc = "waiting",
                                         !.sent = [claims |-> claims, local |-> server.local]]
    /\ UNCHANGED <<clock, calls, redeliveries, cell>>

\* The server merges the reply into its local subset.
Receive ==
    /\ server # Idle /\ server.pc = "waiting"
    /\ LET local == ServerMerge(server.local, server.reply)
       IN server' = [server EXCEPT !.local = local, !.pc = "idle",
                                   !.stable = (claims = server.sent.claims
                                               /\ local = server.sent.local)]
    /\ UNCHANGED <<claims, clock, calls, redeliveries, cell>>

\* A game event on the server produces a claim value.
LocalUpdate ==
    /\ server # Idle /\ server.updates < MaxUpdates
    /\ \E k \in ScopeKeys, v \in ClaimValue :
          server' = [server EXCEPT
                        !.local = ServerMerge(@, [claims |-> (k :> v),
                                                  date_synchronized |-> @.date_synchronized]),
                        !.stable = FALSE, !.updates = @ + 1]
    /\ UNCHANGED <<claims, clock, calls, redeliveries, cell>>

\* Another game server's subset is merged into the store.
RemoteUpdate ==
    /\ server # Idle /\ server.updates < MaxUpdates
    /\ \E new \in ClaimSubsets, game_id \in GameId, realm_id \in RealmId :
          \E order \in Orders(DOMAIN new.claims) :
              claims' = ClaimSet_merge(claims, new, game_id, realm_id, clock, order).set
    /\ server' = [server EXCEPT !.stable = FALSE, !.updates = @ + 1]
    /\ UNCHANGED <<clock, calls, redeliveries, cell>>

NextSync == Send \/ Receive \/ LocalUpdate \/ RemoteUpdate

SpecSync == InitSync /\ [][NextSync]_vars

\* ------------------------------------------------ claims on ClaimValue::merge
LastMerged == cell.merged[Len(cell.merged)]

\* C5: merging a ClaimValue into an equal copy of itself, under any
\* aggregation, leaves value, date_updated and date_expires unchanged and
\* returns changed = false.
C5_MergeIdempotent ==
    (cell # Idle /\ cell.merged # << >> /\ LastMerged.new = LastMerged.old)
        => (cell.self = LastMerged.old /\ LastMerged.changed = FALSE)

\* A value was merged into an equal copy of itself after an earlier merge.
C5_Witness ==
    /\ cell # Idle
    /\ Len(cell.merged) = 2
    /\ LastMerged.new = LastMerged.old
    /\ cell.merged[1].changed

\* C6: for a fixed aggregation, merging b into a gives the same ClaimValue as
\* merging a into b, and merging c into (a merged with b) gives the same as
\* merging (b merged with c) into a, whatever the timestamps.
C6_MergeCommutativeAssociative ==
    /\ (cell # Idle /\ Len(cell.merged) = 1)
          => cell.self = ClaimValue_merge(cell.merged[1].new, cell.initial,
                                          cell.aggregation).self
    /\ (cell # Idle /\ Len(cell.merged) = 2)
          => cell.self =
                ClaimValue_merge(cell.initial,
                                 ClaimValue_merge(cell.merged[1].new, cell.merged[2].new,
                                                  cell.aggregation).self,
                                 cell.aggregation).self

\* The condition `replace` as the claims word it.
Replaces(old, new, aggregation) ==
    \/ aggregation = "New" /\ new.date_updated >= old.date_updated
    \/ aggregation = "Min" /\ new.value < old.value
    \/ aggregation = "Max" /\ new.value > old.value

\* C17: after merge the pair (value, date_updated) equals the incoming pair
\* when replace holds and is unchanged otherwise; so under Max/Min an incoming
\* claim of equal magnitude changes neither, and under New an incoming claim
\* with an equal timestamp replaces the stored value.
C17_MagnitudeRule ==
    (cell # Idle /\ cell.merged # << >>) =>
        LET old == LastMerged.old
            new == LastMerged.new
        IN /\ IF Replaces(old, new, cell.aggregation)
              THEN cell.self.value = new.value /\ cell.self.date_updated = new.date_updated
              ELSE cell.self.value = old.value /\ cell.self.date_updated = old.date_updated
           /\ (cell.aggregation \in {"Max", "Min"} /\ new.value = old.value)
                 => cell.self.value = old.value /\ cell.self.date_updated = old.date_updated
           /\ (cell.aggregation = "New" /\ new.date_updated = old.date_updated)
                 => cell.self.value = new.value

\* Under New a different magnitude with an equal timestamp was taken over.
C17_Witness ==
    /\ cell # Idle /\ cell.merged # << >>
    /\ cell.aggregation = "New"
    /\ LastMerged.new.date_updated = LastMerged.old.date_updated
    /\ LastMerged.new.value # LastMerged.old.value
    /\ cell.self.value = LastMerged.new.value

\* replace holds, or the incoming date_updated is not older than the stored one.
AdoptsExpiration(old, new, aggregation) ==
    Replaces(old, new, aggregation) \/ new.date_updated >= old.date_updated

\* C18: after merge, date_expires equals the incoming date_expires if and
\* only if replace holds or the incoming date_updated is not older than the
\* stored one before the merge, and is unchanged otherwise.
C18_ExpirationIff ==
    (cell # Idle /\ cell.merged # << >>) =>
        /\ (cell.self.date_expires = LastMerged.new.date_expires)
              <=> AdoptsExpiration(LastMerged.old, LastMerged.new, cell.aggregation)
        /\ ~AdoptsExpiration(LastMerged.old, LastMerged.new, cell.aggregation)
              => cell.self.date_expires = LastMerged.old.date_expires

\* C18 as amended: date_expires is the incoming one if the condition holds
\* and the stored one otherwise (which equals the incoming one only when the
\* two were equal before); under Max/Min a rejected magnitude that is not
\* older still overwrites the expiration.
C18_ExpirationRule ==
    (cell # Idle /\ cell.merged # << >>) =>
        /\ IF AdoptsExpiration(LastMerged.old, LastMerged.new, cell.aggregation)
           THEN cell.self.date_expires = LastMerged.new.date_expires
           ELSE cell.self.date_expires = LastMerged.old.date_expires
        /\ (/\ cell.aggregation \in {"Max", "Min"}
            /\ ~Replaces(LastMerged.old, LastMerged.new, cell.aggregation)
            /\ LastMerged.new.date_updated >= LastMerged.old.date_updated)
              => /\ cell.self.date_expires = LastMerged.new.date_expires
                 /\ cell.self.value = LastMerged.old.value

\* Under Max a lower, newer claim without expiration cleared the stored one.
C18_Witness ==
    /\ cell # Idle /\ cell.merged # << >>
    /\ cell.aggregation = "Max"
    /\ LastMerged.new.value < LastMerged.old.value
    /\ LastMerged.new.date_updated > LastMerged.old.date_updated
    /\ LastMerged.old.date_expires # None
    /\ LastMerged.new.date_expires = None
    /\ cell.self.date_expires = None
    /\ cell.self.value = LastMerged.old.value

\* The initial value and the values merged so far.
Inputs == {cell.initial} \cup {cell.merged[i].new : i \in 1..Len(cell.merged)}

\* The inputs with the greatest date_updated.
Freshest == {x \in Inputs : \A y \in Inputs : y.date_updated <= x.date_updated}

\* C19: after any sequence of merges under Max or Min, the stored
\* date_expires is that of the input with the greatest date_updated among the
\* initial value and all inputs merged so far (of one of them, if several
\* share that date_updated).
C19_ExpirationOfFreshest ==
    (cell # Idle /\ cell.aggregation \in {"Max", "Min"})
        => cell.self.date_expires \in {x.date_expires : x \in Freshest}

\* C20: across a sequence of merges the magnitude never decreases under Max
\* and never increases under Min.
C20_Monotonic ==
    (cell # Idle /\ cell.merged # << >>) =>
        /\ cell.aggregation = "Max"
              => /\ cell.self.value >= LastMerged.old.value
                 /\ cell.self.value >= cell.initial.value
        /\ cell.aggregation = "Min"
              => /\ cell.self.value <= LastMerged.old.value
                 /\ cell.self.value <= cell.initial.value

\* Under Max a peak was reached and a later, lower claim left it in place.
C20_Witness ==
    /\ cell # Idle /\ Len(cell.merged) = 2
    /\ cell.aggregation = "Max"
    /\ cell.merged[1].new.value > cell.initial.value
    /\ cell.merged[2].new.value < cell.merged[1].new.value
    /\ cell.self.value = cell.merged[1].new.value

\* The initial value followed by the inputs in the order they were applied.
Applied == <<cell.initial>> \o [i \in 1..Len(cell.merged) |-> cell.merged[i].new]

\* The last applied input among those with the greatest date_updated.
LatestApplied ==
    LET top == Greatest({Applied[i].date_updated : i \in 1..Len(Applied)})
    IN Applied[Greatest({i \in 1..Len(Applied) : Applied[i].date_updated = top})]

\* C22: after any sequence of merges under New, the stored date_updated is the
\* maximum date_updated among the initial value and all inputs, and the
\* stored value and date_expires are those of the most recently applied input
\* among the ones carrying that timestamp.
C22_NewRecency ==
    (cell # Idle /\ cell.aggregation = "New") =>
        /\ cell.self.date_updated = Greatest({x.date_updated : x \in Inputs})
        /\ cell.self.value = LatestApplied.value
        /\ cell.self.date_expires = LatestApplied.date_expires

\* Two inputs tie on the latest timestamp and the one applied last is stored;
\* an older input applied after them would have been rejected.
C22_Witness ==
    /\ cell # Idle /\ cell.aggregation = "New" /\ Len(cell.merged) = 2
    /\ cell.merged[1].new.date_updated = cell.merged[2].new.date_updated
    /\ cell.merged[1].new.date_updated > cell.initial.date_updated
    /\ cell.merged[1].new # cell.merged[2].new
    /\ cell.self = cell.merged[2].new

\* C38: ClaimValue::merge returns true exactly when a field of self after
\* the call differs from its value before the call.
C38_FlagExact ==
    \A i \in DOMAIN cell.merged :
        LET after == IF i < Len(cell.merged) THEN cell.merged[i + 1].old ELSE cell.self
        IN cell.merged[i].changed <=> after # cell.merged[i].old

\* A merge that replaced nothing adopted the date_expires of a claim that is
\* not older, and reported the change.
C38_Witness ==
    /\ cell.merged # << >>
    /\ LET m == cell.merged[Len(cell.merged)]
       IN /\ m.changed
          /\ cell.self.value = m.old.value
          /\ cell.self.date_updated = m.old.date_updated
          /\ cell.self.date_expires # m.old.date_expires
          /\ m.new.date_updated > m.old.date_updated

\* ------------------------------------------------- claims on ClaimSet::merge
Last == calls[Len(calls)]
Prev == calls[Len(calls) - 1]

Partitions == {"global", "game", "realm"}

\* date_expires is present and earlier than t.
IsExpired(value, t) == value.date_expires # None /\ value.date_expires < t

\* The entry of the store that a claim of a call addresses.
Slot(call, scope_key) ==
    [p |-> Partition(scope_key.scope),
     k |-> EntryKey(scope_key, call.game_id, call.realm_id)]

Has(set, slot) == slot.k \in DOMAIN set[slot.p]
At(set, slot) == set[slot.p][slot.k]
Entries(set) == UNION {{[p |-> p, k |-> k] : k \in DOMAIN set[p]} : p \in Partitions}

\* The ClaimKey of an entry.
KeyOf(slot) ==
    CASE slot.p = "global" -> slot.k
      [] slot.p = "game" -> slot.k.key
      [] slot.p = "realm" -> slot.k.key.key

\* The entry was in the set before the call and outlived the sweep of the call.
Survived(call, slot) ==
    Has(call.old, slot) /\ ~IsExpired(At(call.old, slot), call.now)

Sent(call) == DOMAIN call.new.claims
ReplyKeys(call) == DOMAIN call.subset.claims
NoneExpired(call) == \A sk \in Sent(call) : ~IsExpired(call.new.claims[sk], call.now)

\* C1: merging the same subset twice in a row under the same `now` leaves the
\* ClaimSet after the second call equal to the ClaimSet after the first, and
\* the second reply has no key that the first reply lacks.
C1_Reapplication ==
    (Len(calls) >= 2 /\ redeliveries = 1 /\ Last.now = Prev.now)
        => (Last.set = Prev.set /\ ReplyKeys(Last) \subseteq ReplyKeys(Prev))

\* C1 as amended: the same, for a subset none of whose claims carries a
\* date_expires earlier than `now`.
C1_ReapplicationUnexpired ==
    (Len(calls) >= 2 /\ redeliveries = 1 /\ Last.now = Prev.now /\ NoneExpired(Last))
        => (Last.set = Prev.set /\ ReplyKeys(Last) \subseteq ReplyKeys(Prev))

\* A subset that changed an existing entry is applied a second time.
C1_Witness ==
    /\ Len(calls) >= 3 /\ redeliveries = 1 /\ Last.now = Prev.now /\ NoneExpired(Last)
    /\ \E sk \in Sent(Prev) :
          /\ Survived(Prev, Slot(Prev, sk))
          /\ At(Prev.set, Slot(Prev, sk)) # At(Prev.old, Slot(Prev, sk))
    /\ Last.set = Prev.set

\* C3: a key contained in the reply to one application of a subset is not
\* contained again in the reply to a later redundant application.
C3_EchoedOnce ==
    (Len(calls) >= 2 /\ redeliveries >= 1)
        => ReplyKeys(Last) \cap ReplyKeys(Prev) = {}

\* C3 as amended: a redundant application adds no key to the reply (its keys
\* are among those of the application before), and a key the sender sent is
\* echoed again exactly while the stored value differs from the value sent.
C3_NoNewEchoes ==
    (Len(calls) >= 2 /\ redeliveries >= 1)
        => /\ ReplyKeys(Last) \subseteq ReplyKeys(Prev)
           /\ \A sk \in Sent(Last) \cap ReplyKeys(Last) :
                 /\ Last.subset.claims[sk] # Last.new.claims[sk]
                 /\ Last.subset.claims[sk] = Prev.subset.claims[sk]

\* A key echoed by the first application is echoed again by a later redelivery.
C3_Witness ==
    /\ Len(calls) >= 2 /\ redeliveries >= 1
    /\ Sent(Last) \cap ReplyKeys(Last) # {}
    /\ Last.now > Prev.now

\* Nothing involved in the last two calls has expired at either call.
NothingExpired ==
    /\ NoneExpired(Prev) /\ NoneExpired(Last)
    /\ \A sk \in Sent(Prev) : ~IsExpired(Prev.new.claims[sk], Last.now)
    /\ \A e \in Entries(Prev.old) : ~IsExpired(At(Prev.old, e), Last.now)

\* C4: two subsets from servers of the same game and realm, nothing expired:
\* merging S1 then S2 yields the same ClaimSet as merging S2 then S1.
C4_OrderIrrelevant ==
    (/\ Len(calls) >= 2 /\ redeliveries = 0
     /\ Last.game_id = Prev.game_id /\ Last.realm_id = Prev.realm_id
     /\ NothingExpired)
        => \A o2 \in Orders(Sent(Last)), o1 \in Orders(Sent(Prev)) :
              Last.set =
                  ClaimSet_merge(
                      ClaimSet_merge(Prev.old, Last.new, Last.game_id, Last.realm_id,
                                     Prev.now, o2).set,
                      Prev.new, Prev.game_id, Prev.realm_id, Last.now, o1).set

\* The magnitudes delivered so far for an entry.
Delivered(slot) ==
    {calls[i].new.claims[sk].value :
        <<i, sk>> \in {x \in (1..Len(calls)) \X ScopeKeys :
                          x[2] \in Sent(calls[x[1]]) /\ Slot(calls[x[1]], x[2]) = slot}}

NoExpirations ==
    \A i \in 1..Len(calls) : \A sk \in Sent(calls[i]) :
        calls[i].new.claims[sk].date_expires = None

DeliveredSlots ==
    {Slot(calls[x[1]], x[2]) :
        x \in {x \in (1..Len(calls)) \X ScopeKeys : x[2] \in Sent(calls[x[1]])}}

\* C7: when no delivered claim carries an expiration, every delivered key is
\* stored, a Max key with the greatest magnitude ever delivered for it in its
\* partition and a Min key with the least.
C7_NoDataLoss ==
    NoExpirations =>
        \A slot \in DeliveredSlots :
            /\ Has(claims, slot)
            /\ KeyOf(slot).aggregation = "Max"
                  => At(claims, slot).value = Greatest(Delivered(slot))
            /\ KeyOf(slot).aggregation = "Min"
                  => At(claims, slot).value = Least(Delivered(slot))

\* A Max key keeps its peak although a lower magnitude was delivered later.
C7_Witness ==
    /\ NoExpirations /\ Len(calls) >= 2
    /\ \E sk \in Sent(Last) :
          /\ sk.key.aggregation = "Max"
          /\ At(claims, Slot(Last, sk)).value > Last.new.claims[sk].value
          /\ At(claims, Slot(Last, sk)).date_updated < Last.new.claims[sk].date_updated

\* C8: immediately after a merge that ran at `now`, no partition holds an
\* entry whose date_expires is earlier than `now`.
C8_NoExpiredAfterMerge ==
    calls # << >> =>
        \A e \in Entries(claims) : ~IsExpired(At(claims, e), Last.now)

\* C8 as amended: immediately after a merge that ran at `now`, an entry whose
\* date_expires is earlier than `now` is one that an incoming claim of this
\* call addresses, and it carries the date_expires of that incoming claim.
C8_ExpiredOnlyFromIncoming ==
    calls # << >> =>
        \A e \in Entries(claims) :
            IsExpired(At(claims, e), Last.now)
                => \E sk \in Sent(Last) :
                      /\ Slot(Last, sk) = e
                      /\ Last.new.claims[sk].date_expires = At(claims, e).date_expires

\* The sweep removed an expired entry of another game's server.
C8_Witness ==
    /\ Len(calls) >= 2
    /\ \E e \in Entries(Last.old) :
          /\ IsExpired(At(Last.old, e), Last.now)
          /\ ~Has(claims, e)
          /\ e.p # "global"
          /\ e.k # EntryKey(ScopeClaimKey(IF e.p = "game" THEN "Game" ELSE "Realm", KeyOf(e)),
                            Last.game_id, Last.realm_id)

\* C9: an incoming claim that is already expired and whose key is absent
\* after the sweep is stored verbatim and present when merge returns; the
\* sweep of the next merge removes it before that call applies its own claims
\* (so the entry is then absent, or holds the next call's claim verbatim).
C9_ExpiredInsertedThenSwept ==
    /\ calls # << >> =>
          \A sk \in Sent(Last) :
              (IsExpired(Last.new.claims[sk], Last.now) /\ ~Survived(Last, Slot(Last, sk)))
                  => /\ Has(claims, Slot(Last, sk))
                     /\ At(claims, Slot(Last, sk)) = Last.new.claims[sk]
    /\ Len(calls) >= 2 =>
          \A sk \in Sent(Prev) :
              (IsExpired(Prev.new.claims[sk], Prev.now) /\ ~Survived(Prev, Slot(Prev, sk)))
                  => /\ Last.changed
                     /\ IF \E sk2 \in Sent(Last) : Slot(Last, sk2) = Slot(Prev, sk)
                        THEN /\ At(claims, Slot(Prev, sk)) =
                                    Last.new.claims[
                                        CHOOSE sk2 \in Sent(Last) : Slot(Last, sk2) = Slot(Prev, sk)]
                             /\ sk \notin ReplyKeys(Last)
                        ELSE ~Has(claims, Slot(Prev, sk))

\* An expired claim was inserted by one call and swept by the next, which
\* came from another server and did not address the key.
C9_Witness ==
    /\ Len(calls) >= 2
    /\ \E sk \in Sent(Prev) :
          /\ IsExpired(Prev.new.claims[sk], Prev.now)
          /\ ~Survived(Prev, Slot(Prev, sk))
          /\ At(Prev.set, Slot(Prev, sk)) = Prev.new.claims[sk]
          /\ ~Has(claims, Slot(Prev, sk))

\* C10: an incoming claim whose resolved key is absent from its partition
\* after the sweep is stored verbatim, store_changed is true and the reply
\* does not contain the key; a single new claim merged into an empty ClaimSet
\* yields an empty reply.
C10_InsertUnseen ==
    calls # << >> =>
        /\ \A sk \in Sent(Last) :
              ~Survived(Last, Slot(Last, sk))
                  => /\ Has(claims, Slot(Last, sk))
                     /\ At(claims, Slot(Last, sk)) = Last.new.claims[sk]
                     /\ Last.changed
                     /\ sk \notin ReplyKeys(Last)
        /\ (Last.old = ClaimSet_default /\ Cardinality(Sent(Last)) = 1)
              => ReplyKeys(Last) = {}

\* A claim newer than the sender's watermark is inserted next to an entry
\* that is echoed.
C10_Witness ==
    /\ calls # << >>
    /\ \E sk \in Sent(Last) :
          /\ ~Survived(Last, Slot(Last, sk))
          /\ Last.new.claims[sk].date_updated > Last.new.date_synchronized
          /\ At(claims, Slot(Last, sk)) = Last.new.claims[sk]
    /\ ReplyKeys(Last) # {}

\* ------------------------------------------------------ the echo rules
\* No entry of the store had expired when the call read the clock.
NothingSwept(call) == \A e \in Entries(call.old) : ~IsExpired(At(call.old, e), call.now)

\* C11: for an incoming claim whose resolved key is present after the sweep,
\* the key is in the reply exactly when the stored value after the merge
\* differs from the incoming value, and the reply then carries the stored
\* value; a Max entry that holds the greater and older magnitude is replied
\* as it was stored, and such a claim alone does not change the store.
C11_EchoRule ==
    calls # << >> =>
        \A sk \in Sent(Last) :
            LET slot == Slot(Last, sk)
                new == Last.new.claims[sk]
            IN Survived(Last, slot) =>
                  /\ (sk \in ReplyKeys(Last)) <=> (At(claims, slot) # new)
                  /\ sk \in ReplyKeys(Last) => Last.subset.claims[sk] = At(claims, slot)
                  /\ (/\ sk.key.aggregation = "Max"
                      /\ At(Last.old, slot).value > new.value
                      /\ At(Last.old, slot).date_updated < new.date_updated
                      /\ At(Last.old, slot).date_expires = None
                      /\ new.date_expires = None)
                        => /\ sk \in ReplyKeys(Last)
                           /\ Last.subset.claims[sk] = At(Last.old, slot)
                           /\ (Sent(Last) = {sk} /\ NothingSwept(Last)) => ~Last.changed

\* A stored Max magnitude answers a lower and newer one, the store unchanged.
C11_Witness ==
    /\ calls # << >>
    /\ \E sk \in Sent(Last) :
          /\ Survived(Last, Slot(Last, sk))
          /\ sk.key.aggregation = "Max"
          /\ At(Last.old, Slot(Last, sk)).value > Last.new.claims[sk].value
          /\ At(Last.old, Slot(Last, sk)).date_updated < Last.new.claims[sk].date_updated
          /\ sk \in ReplyKeys(Last)
          /\ ~Last.changed

\* What ClaimValue::merge did for an incoming claim on a present key.
ValueMerge(call, sk) ==
    ClaimValue_merge(At(call.old, Slot(call, sk)), call.new.claims[sk], sk.key.aggregation)

\* C12: for an incoming claim whose resolved key is present, if the value
\* merge reports changed = true then the key is in the reply.
C12_ChangedIsEchoed ==
    calls # << >> =>
        \A sk \in Sent(Last) :
            (Survived(Last, Slot(Last, sk)) /\ ValueMerge(Last, sk).changed)
                => sk \in ReplyKeys(Last)

\* C12 as amended: a reported change puts the key in the reply when the
\* stored value after the merge still differs from the one sent, and keeps it
\* out of the reply when the incoming claim was adopted whole.
C12_ChangedIsEchoedIfDifferent ==
    calls # << >> =>
        \A sk \in Sent(Last) :
            (Survived(Last, Slot(Last, sk)) /\ ValueMerge(Last, sk).changed)
                => IF ValueMerge(Last, sk).self # Last.new.claims[sk]
                   THEN sk \in ReplyKeys(Last)
                   ELSE sk \notin ReplyKeys(Last)

\* A merge took over the expiration only, and the key is echoed.
C12_Witness ==
    /\ calls # << >>
    /\ \E sk \in Sent(Last) :
          /\ Survived(Last, Slot(Last, sk))
          /\ ValueMerge(Last, sk).changed
          /\ ValueMerge(Last, sk).self.value = At(Last.old, Slot(Last, sk)).value
          /\ ValueMerge(Last, sk).self # Last.new.claims[sk]
          /\ sk \in ReplyKeys(Last)

\* min(earliest date_updated among the incoming claims, date_synchronized).
Cutoff(call) ==
    Least({call.new.claims[sk].date_updated : sk \in Sent(call)}
          \cup {call.new.date_synchronized})

ChangedByPrev(slot) ==
    /\ Has(Prev.set, slot)
    /\ ~Has(Prev.old, slot) \/ At(Prev.old, slot) # At(Prev.set, slot)

\* C14: server A has synchronized before and its watermark is T; after T a
\* merge from a server of another game or realm changed the store's value of
\* a key in A's partition; then the reply to A's next merge contains the key,
\* unless A's subset carries exactly the stored value.  (Entries that expire
\* before A's merge are left aside.)
C14_IndependentChangesEchoed ==
    (/\ Len(calls) >= 2 /\ redeliveries = 0
     /\ <<Prev.game_id, Prev.realm_id>> # <<Last.game_id, Last.realm_id>>
     /\ MIN < Last.new.date_synchronized /\ Last.new.date_synchronized < Prev.now)
        => \A sk \in ScopeKeys :
              (/\ ChangedByPrev(Slot(Last, sk))
               /\ ~IsExpired(At(Prev.set, Slot(Last, sk)), Last.now))
                  => \/ sk \in ReplyKeys(Last)
                     \/ /\ sk \in Sent(Last)
                        /\ Last.new.claims[sk] = At(claims, Slot(Last, sk))

\* C15: the reply carries the date_synchronized of the incoming subset, and
\* every entry of it has a key of the caller's partition with the value that
\* the ClaimSet holds when merge returns.  (merge always builds a reply, the
\* `subset` of the call.)
C15_ReplyShape ==
    calls # << >> =>
        /\ Last.subset.date_synchronized = Last.new.date_synchronized
        /\ \A sk \in ReplyKeys(Last) :
              /\ sk \in ScopeKeys
              /\ Has(claims, Slot(Last, sk))
              /\ Last.subset.claims[sk] = At(claims, Slot(Last, sk))

\* A reply with a realm-scoped entry and a watermark later than the least
\* timestamp.
C15_Witness ==
    /\ calls # << >>
    /\ \E sk \in ReplyKeys(Last) : sk.scope = "Realm"
    /\ Last.subset.date_synchronized > MIN

\* C16: every entry, of any game and realm, whose date_expires is earlier than
\* `now` is removed by the sweep and makes store_changed true; it is gone when
\* merge returns, or replaced verbatim (and not echoed) by the incoming claim
\* for its key; it seeds no echo; every other entry is kept.
C16_Sweep ==
    calls # << >> =>
        \A e \in Entries(Last.old) :
            IF IsExpired(At(Last.old, e), Last.now)
            THEN /\ Last.changed
                 /\ IF \E sk \in Sent(Last) : Slot(Last, sk) = e
                    THEN LET sk == CHOOSE sk \in Sent(Last) : Slot(Last, sk) = e
                         IN /\ Has(claims, e) /\ At(claims, e) = Last.new.claims[sk]
                            /\ sk \notin ReplyKeys(Last)
                    ELSE /\ ~Has(claims, e)
                         /\ \A sk \in ScopeKeys : Slot(Last, sk) = e => sk \notin ReplyKeys(Last)
            ELSE Has(claims, e)

\* An expired Max entry is replaced by an incoming claim of lower magnitude.
C16_Witness ==
    /\ calls # << >>
    /\ \E sk \in Sent(Last) :
          /\ Has(Last.old, Slot(Last, sk))
          /\ IsExpired(At(Last.old, Slot(Last, sk)), Last.now)
          /\ sk.key.aggregation = "Max"
          /\ At(Last.old, Slot(Last, sk)).value > Last.new.claims[sk].value
          /\ At(claims, Slot(Last, sk)) = Last.new.claims[sk]

\* ------------------------------------------------- the store as a whole
\* C21: for every Max key present in the ClaimSet both before and after a
\* merge call, the magnitude after the call is >= the one before (<= for Min).
C21_StoreMonotonic ==
    calls # << >> =>
        \A e \in Entries(Last.old) :
            Has(claims, e) =>
                /\ KeyOf(e).aggregation = "Max" => At(claims, e).value >= At(Last.old, e).value
                /\ KeyOf(e).aggregation = "Min" => At(claims, e).value <= At(Last.old, e).value

\* C21 as amended: the same for every key whose entry had not expired when
\* the call read the clock (an expired entry is swept and may come back with
\* any magnitude).
C21_StoreMonotonicUnexpired ==
    calls # << >> =>
        \A e \in Entries(Last.old) :
            ~IsExpired(At(Last.old, e), Last.now) =>
                /\ Has(claims, e)
                /\ KeyOf(e).aggregation = "Max" => At(claims, e).value >= At(Last.old, e).value
                /\ KeyOf(e).aggregation = "Min" => At(claims, e).value <= At(Last.old, e).value

\* A Min entry kept its magnitude against a greater and newer incoming one.
C21_Witness ==
    /\ calls # << >>
    /\ \E sk \in Sent(Last) :
          /\ sk.key.aggregation = "Min"
          /\ Survived(Last, Slot(Last, sk))
          /\ Last.new.claims[sk].value > At(Last.old, Slot(Last, sk)).value
          /\ Last.new.claims[sk].date_updated > At(Last.old, Slot(Last, sk)).date_updated
          /\ At(claims, Slot(Last, sk)).value = At(Last.old, Slot(Last, sk)).value

\* The entries that the derived queries of a game read.
QueriedEntries(game_id) ==
    {e \in Entries(claims) :
        \/ e = [p |-> "global", k |-> streak.key]
        \/ e = [p |-> "game", k |-> GameClaimKey(game_id, high_score.key)]
        \/ e = [p |-> "game", k |-> GameClaimKey(game_id, rank.key)]}

\* C23: at any time `now` not earlier than the last merge, subset(game_id,
\* realm_id) returns no ClaimValue whose date_expires is earlier than `now`,
\* and high_score, rank, streak and public_claims read no such entry.
C23_ExpiredNeverRead ==
    \A now \in clock..MaxTime, game_id \in GameId, realm_id \in RealmId :
        /\ \A sk \in DOMAIN subset(claims, game_id, realm_id).claims :
              ~IsExpired(subset(claims, game_id, realm_id).claims[sk], now)
        /\ \A e \in QueriedEntries(game_id) : ~IsExpired(At(claims, e), now)

\* The scope under which an entry is handed out, with its ClaimKey.
Tag(e) ==
    ScopeClaimKey(CASE e.p = "global" -> "Global"
                    [] e.p = "game" -> "Game"
                    [] e.p = "realm" -> "Realm",
                  KeyOf(e))

\* The entry belongs to what a server of (game_id, realm_id) is shown.
InPartition(e, game_id, realm_id) ==
    \/ e.p = "global"
    \/ e.p = "game" /\ e.k.game_id = game_id
    \/ e.p = "realm" /\ e.k.realm_id = realm_id /\ e.k.key.game_id = game_id

\* Where a claim merged for (G1, R1) is to be visible.
VisibleTo(call, sk, G2, R2) ==
    \/ sk.scope = "Global"
    \/ sk.scope = "Game" /\ G2 = call.game_id
    \/ sk.scope = "Realm" /\ G2 = call.game_id /\ R2 = call.realm_id

\* C24: after merge(S, G1, R1), subset(G2, R2) shows the entry of a claim of S
\* exactly when the claim is Global, or Game-scoped and G2 = G1, or
\* Realm-scoped and G2 = G1 and R2 = R1 (elsewhere subset(G2, R2) shows for
\* that key what it showed before the claims of S were applied); subset(G, R)
\* consists of exactly the global entries, the game entries of G and the
\* realm entries of (R, G), re-tagged and with unchanged values; every entry
\* of the reply is an entry of subset(G1, R1).
C24_ScopeVisibility ==
    calls # << >> =>
        /\ \A sk \in Sent(Last), G2 \in GameId, R2 \in RealmId :
              LET before == subset(Expire(Last.old, Last.now), G2, R2).claims
                  after == subset(claims, G2, R2).claims
              IN IF VisibleTo(Last, sk, G2, R2)
                 THEN sk \in DOMAIN after /\ after[sk] = At(claims, Slot(Last, sk))
                 ELSE /\ sk \in DOMAIN after <=> sk \in DOMAIN before
                      /\ sk \in DOMAIN after => after[sk] = before[sk]
        /\ \A G \in GameId, R \in RealmId :
              LET shown == {e \in Entries(claims) : InPartition(e, G, R)}
              IN /\ DOMAIN subset(claims, G, R).claims = {Tag(e) : e \in shown}
                 /\ \A e \in shown : subset(claims, G, R).claims[Tag(e)] = At(claims, e)
        /\ \A sk \in ReplyKeys(Last) :
              /\ sk \in DOMAIN subset(claims, Last.game_id, Last.realm_id).claims
              /\ Last.subset.claims[sk] = subset(claims, Last.game_id, Last.realm_id).claims[sk]

\* A realm-scoped claim was merged while another realm of the same game
\* holds a different value under the same key.
C24_Witness ==
    /\ Len(calls) >= 2
    /\ \E sk \in Sent(Last), R2 \in RealmId :
          /\ sk.scope = "Realm" /\ R2 # Last.realm_id
          /\ sk \in DOMAIN subset(claims, Last.game_id, R2).claims
          /\ subset(claims, Last.game_id, R2).claims[sk] # At(claims, Slot(Last, sk))

\* The claims delivered so far for an entry.
DeliveredClaims(slot) ==
    {calls[x[1]].new.claims[x[2]] :
        x \in {x \in (1..Len(calls)) \X ScopeKeys :
                  x[2] \in Sent(calls[x[1]]) /\ Slot(calls[x[1]], x[2]) = slot}}

\* C25: the (value, date_updated) pair of every stored entry is the pair of
\* one single claim that was delivered for that key.
C25_NoDoubleCounting ==
    \A e \in Entries(claims) :
        \E c \in DeliveredClaims(e) :
            /\ c.value = At(claims, e).value
            /\ c.date_updated = At(claims, e).date_updated

\* An entry holds the pair of one claim and the expiration of another one,
\* which it rejected.
C25_Witness ==
    \E e \in Entries(claims) :
        /\ Cardinality(DeliveredClaims(e)) = 2
        /\ \A c \in DeliveredClaims(e) : c # At(claims, e)
        /\ \E c \in DeliveredClaims(e) :
              c.value # At(claims, e).value /\ c.date_expires = At(claims, e).date_expires

\* The Game-partition entry of a game for a well-known name.
GameEntry(game_id, name, aggregation) ==
    [p |-> "game", k |-> [game_id |-> game_id,
                          key |-> [name |-> name, aggregation |-> aggregation]]]

\* (value, Some(date_updated)) of an entry, (0, None) when it is absent.
Answer(e) ==
    IF Has(claims, e) THEN <<At(claims, e).value, At(claims, e).date_updated>>
    ELSE <<0, None>>

\* The store without the entries of other games and without realm entries.
OnlyGame(game_id) ==
    [global |-> claims.global,
     game |-> [gk \in {gk \in DOMAIN claims.game : gk.game_id = game_id} |-> claims.game[gk]],
     realm |-> EmptyMap]

\* C30: high_score(G) and rank(G) return (value, Some(date_updated)) of the
\* Game entry of G for high_score/Max and rank/New, (0, None) without it;
\* streak() returns the magnitude of the Global streak/Max entry or 0;
\* public_claims(G) is composed of the three, and none of them depends on
\* other games' entries or on the realm partition.
C30_DerivedQueries ==
    \A G \in GameId :
        LET streak_entry == [p |-> "global", k |-> [name |-> "streak", aggregation |-> "Max"]]
        IN /\ ClaimSet_high_score(claims, G) = Answer(GameEntry(G, "high_score", "Max"))
           /\ ClaimSet_rank(claims, G) = Answer(GameEntry(G, "rank", "New"))
           /\ ClaimSet_streak(claims) = Answer(streak_entry)[1]
           /\ public_claims(claims, G) =
                 [date_high_score |-> Answer(GameEntry(G, "high_score", "Max"))[2],
                  date_rank |-> Answer(GameEntry(G, "rank", "New"))[2],
                  high_score |-> Answer(GameEntry(G, "high_score", "Max"))[1],
                  rank |-> Answer(GameEntry(G, "rank", "New"))[1],
                  streak |-> Answer(streak_entry)[1]]
           /\ public_claims(OnlyGame(G), G) = public_claims(claims, G)
           /\ ClaimSet_high_score(OnlyGame(G), G) = ClaimSet_high_score(claims, G)
           /\ ClaimSet_rank(OnlyGame(G), G) = ClaimSet_rank(claims, G)

\* Two games hold different high scores and each is answered its own.
C30_Witness ==
    \E G1 \in GameId, G2 \in GameId :
        /\ G1 # G2
        /\ Has(claims, GameEntry(G1, "high_score", "Max"))
        /\ Has(claims, GameEntry(G2, "high_score", "Max"))
        /\ ClaimSet_high_score(claims, G1)[1] # ClaimSet_high_score(claims, G2)[1]

C35_ChangedIsSound ==
    \A i \in DOMAIN calls : calls[i].set # calls[i].old => calls[i].changed

\* A merge inserts a key into a store that already holds another, and
\* reports the change.
C35_Witness ==
    /\ Len(calls) >= 2
    /\ \E sk \in Sent(Last) : ~Has(Last.old, Slot(Last, sk))
    /\ Entries(Last.old) # {}
    /\ Entries(Last.old) \subseteq Entries(Last.set)
    /\ Last.changed

Addressed(call) ==
    {CASE sk.scope = "Global" -> [p |-> "global", k |-> sk.key]
       [] sk.scope = "Game" ->
             [p |-> "game", k |-> [game_id |-> call.game_id, key |-> sk.key]]
       [] sk.scope = "Realm" ->
             [p |-> "realm", k |-> [realm_id |-> call.realm_id,
                                    key |-> [game_id |-> call.game_id, key |-> sk.key]]] :
        sk \in Sent(call)}

\* C37: a call of ClaimSet::merge leaves every entry that its claims do not
\* address with the same ClaimValue, or removes it when its date_expires is
\* earlier than `now`, and creates no entry that its claims do not address.
C37_Frame ==
    \A i \in DOMAIN calls :
        LET call == calls[i]
        IN /\ \A e \in Entries(call.old) \ Addressed(call) :
                 \/ Has(call.set, e) /\ At(call.set, e) = At(call.old, e)
                 \/ ~Has(call.set, e) /\ IsExpired(At(call.old, e), call.now)
           /\ Entries(call.set) \ Entries(call.old) \subseteq Addressed(call)

\* A Game-scoped claim of one game is merged while the store holds the entry
\* of another game for the same key, which stays as it was.
C37_Witness ==
    /\ Len(calls) >= 2
    /\ \E sk \in Sent(Last), e \in Entries(Last.old) \ Addressed(Last) :
          /\ sk.scope = "Game"
          /\ e.p = "game" /\ e.k.key = sk.key /\ e.k.game_id # Last.game_id
          /\ Has(Last.set, e) /\ At(Last.set, e) = At(Last.old, e)
          /\ At(Last.set, Slot(Last, sk)) # At(Last.old, e)

\* C39: the ClaimSet, the reply and the changed flag of a call of
\* ClaimSet::merge are the same for every order in which the claims of the
\* incoming subset are iterated.
C39_OrderOfClaims ==
    \A i \in DOMAIN calls :
        LET call == calls[i]
        IN \A order \in Orders(Sent(call)) :
              ClaimSet_merge(call.old, call.new, call.game_id, call.realm_id, call.now, order)
                  = [set |-> call.set, subset |-> call.subset, changed |-> call.changed]

\* A subset of two claims meets two stored entries; one claim changes its
\* entry and is not echoed, the other changes nothing and its entry is echoed.
C39_Witness ==
    /\ Len(calls) >= 2
    /\ \E a \in Sent(Last), b \in Sent(Last) :
          /\ a # b
          /\ Survived(Last, Slot(Last, a)) /\ Survived(Last, Slot(Last, b))
          /\ At(Last.set, Slot(Last, a)) # At(Last.old, Slot(Last, a))
          /\ At(Last.set, Slot(Last, b)) = At(Last.old, Slot(Last, b))
          /\ a \notin ReplyKeys(Last) /\ b \in ReplyKeys(Last)
    /\ Last.changed

\* ------------------------------------------------------ claims on the sync
\* The last reply was empty and the store holds every key of the server
\* with exactly the server's ClaimValue.
Converged ==
    /\ DOMAIN server.reply.claims = {}
    /\ \A k \in DOMAIN server.local.claims :
          /\ Has(claims, Slot(server, k))
          /\ At(claims, Slot(server, k)) = server.local.claims[k]

\* C2: a server that keeps sending its local subset and merging the replies
\* reaches, once local and remote updates have stopped and nothing expires,
\* an empty reply and the same ClaimValue on both sides for every key it
\* holds.  A round that left the store and the local subset as they were is
\* repeated by every later round, so what is eventually reached is reached
\* by then: after such a round the two sides have converged.
C2_EventualConvergence ==
    (server # Idle /\ server.pc = "idle" /\ server.stable) => Converged

\* ================================================= text forms of the types
\* A text is the sequence of the pieces between its '/' characters: "a/b" is
\* <<"a", "b">>, "a/" is <<"a", "">> and a text without '/' has one piece.
\* Writing "{}/{}" of two texts is the concatenation of their pieces.
\* The pieces used by the inputs, each with its length in bytes.
Vocabulary ==
    << <<"", 0>>,
       <<"public", 6>>,
       <<"default", 7>>,
       <<"named", 5>>,
       <<"temporary", 9>>,
       <<"www", 3>>,
       <<"CDFHKK", 6>>,
       <<"CDFHJK", 6>>,
       <<"mk48", 4>>,
       <<"kiomet", 6>>,
       <<"lobby", 5>>,
       <<"high_score", 10>>,
       <<"kills", 5>>,
       <<"weekly", 6>>,
       <<"longest_winning_streak", 22>>,
       <<"total_distance_travelled_in_meters", 34>>,
       <<"Max", 3>>,
       <<"Min", 3>>,
       <<"New", 3>>,
       <<"Sum", 3>>,
       <<"max", 3>>,
       <<"Global", 6>>,
       <<"Game", 4>>,
       <<"Realm", 5>>,
       <<"0", 1>>,
       <<"1", 1>>,
       <<"2", 1>>,
       <<"3", 1>>,
       <<"4", 1>>,
       <<"5", 1>>,
       <<"6", 1>>,
       <<"7", 1>>,
       <<"8", 1>>,
       <<"9", 1>>,
       <<"x", 1>> >>

Tokens == {Vocabulary[i][1] : i \in DOMAIN Vocabulary}

\* str::len of one piece.
TokenLen(t) == Vocabulary[CHOOSE i \in DOMAIN Vocabulary : Vocabulary[i][1] = t][2]

RECURSIVE SumLen(_)
SumLen(s) == IF s = << >> THEN 0 ELSE TokenLen(Head(s)) + SumLen(Tail(s))

\* str::len of a text: its pieces and the '/' between them.
ByteLen(s) == SumLen(s) + Len(s) - 1

\* Result<T, E> and Option<T>; Panic is the unwinding of the calling thread.
Ok(v) == [tag |-> "Ok", value |-> v]
Err(e) == [tag |-> "Err", error |-> e]
Panic == [tag |-> "Panic"]
Some(v) == [tag |-> "Some", value |-> v]
Nothing == [tag |-> "None"]

\* An error variant without payload, and one that wraps a nested error.
Kind(kind) == [kind |-> kind]
Wrap(kind, inner) == [kind |-> kind, inner |-> inner]

\* str::split_once('/') and str::rsplit_once('/').
split_once(s) ==
    IF Len(s) < 2 THEN Nothing
    ELSE Some([left |-> <<Head(s)>>, right |-> Tail(s)])

rsplit_once(s) ==
    IF Len(s) < 2 THEN Nothing
    ELSE Some([left |-> SubSeq(s, 1, Len(s) - 1), right |-> <<s[Len(s)]>>])

\* split_once_nth(s, '/', n): match_indices('/').nth(n) is the '/' with n
\* others before it; `right` starts at that '/', and the unwrap of its second
\* character panics when nothing follows the '/'.
split_once_nth(s, n) ==
    IF Len(s) - 1 < n + 1 THEN Nothing
    ELSE IF SubSeq(s, n + 2, Len(s)) = <<"">> THEN Panic
    ELSE Some([left |-> SubSeq(s, 1, n + 1), right |-> SubSeq(s, n + 2, Len(s))])

\* Capacities of the ArrayString wrappers and the length of an invitation code.
ClaimName_CAP == 28
GameId_CAP == 12
RealmName_CAP == 12
CODE_LEN == 6

\* ArrayString::<CAP>::from_str
ArrayString_from_str(s, cap) ==
    IF ByteLen(s) > cap THEN Err(Kind("CapacityError")) ELSE Ok(s)

ClaimName_from_str(s) == ArrayString_from_str(s, ClaimName_CAP)
GameId_from_str(s) == ArrayString_from_str(s, GameId_CAP)

\* strum's EnumString: the text must be a variant's name.
ClaimAggregation_from_str(s) ==
    IF Len(s) = 1 /\ s[1] \in ClaimAggregation THEN Ok(s[1])
    ELSE Err(Kind("VariantNotFound"))

ClaimScope_from_str(s) ==
    IF Len(s) = 1 /\ s[1] \in ClaimScope THEN Ok(s[1])
    ELSE Err(Kind("VariantNotFound"))

\* Decimal numerals (one digit is enough for the magnitudes and dates used).
Digits == <<"0", "1", "2", "3", "4", "5", "6", "7", "8", "9">>

u64_fmt(n) == <<Digits[n + 1]>>

u64_from_str(s) ==
    IF Len(s) = 1 /\ \E i \in DOMAIN Digits : Digits[i] = s[1]
    THEN Ok((CHOOSE i \in DOMAIN Digits : Digits[i] = s[1]) - 1)
    ELSE Err(Kind("ParseIntError"))

\* NonZeroUnixMillis is written as its number of milliseconds; zero is no value.
NonZeroUnixMillis_fmt(t) == u64_fmt(t)

NonZeroUnixMillis_from_str(s) ==
    LET n == u64_from_str(s)
    IN IF n.tag = "Ok" /\ n.value = 0 THEN Err(Kind("ParseIntError")) ELSE n

\* ------------------------------------------------------------ names and ids
\* InvitationId: the codes of the invitations used, as Display writes them
\* (server_number 1, number 0 is n = 65536, whose six letters are CDFHKK),
\* and a code of the alphabet that decodes to server number zero.
InvitationCodes == << [id |-> [server_number |-> 1, number |-> 0], code |-> "CDFHKK"] >>
ZeroServerCodes == {"CDFHJK"}

InvitationId_fmt(id) ==
    <<InvitationCodes[CHOOSE i \in DOMAIN InvitationCodes : InvitationCodes[i].id = id].code>>

InvitationId_from_str(code) ==
    IF ByteLen(code) # CODE_LEN THEN Err(Kind("Length"))
    ELSE IF \E i \in DOMAIN InvitationCodes : code = <<InvitationCodes[i].code>>
    THEN Ok(InvitationCodes[CHOOSE i \in DOMAIN InvitationCodes :
                                code = <<InvitationCodes[i].code>>].id)
    ELSE IF Len(code) = 1 /\ code[1] \in ZeroServerCodes THEN Err(Kind("ZeroServerNumber"))
    ELSE Err(Kind("Character"))

RealmName_from_str(s) ==
    IF s = <<"www">> THEN Err(Kind("Www"))
    ELSE IF ArrayString_from_str(s, RealmName_CAP).tag = "Err" THEN Err(Kind("TooLong"))
    ELSE Ok(s)

PublicDefault == [variant |-> "PublicDefault"]
Named(realm_name) == [variant |-> "Named", name |-> realm_name]
Temporary(index) == [variant |-> "Temporary", id |-> index]

RealmId_fmt(self) ==
    CASE self.variant = "PublicDefault" -> <<"public", "default">>
      [] self.variant = "Named" -> <<"named">> \o self.name
      [] self.variant = "Temporary" -> <<"temporary">> \o InvitationId_fmt(self.id)

RealmId_from_str(s) ==
    IF s = <<"public", "default">> THEN Ok(PublicDefault)
    ELSE LET p == split_once(s)
         IN IF p.tag = "None" THEN Err(Kind("MissingSlash"))
            ELSE LET prefix == p.value.left
                     value == p.value.right
                 IN CASE prefix = <<"named">> ->
                            LET n == RealmName_from_str(value)
                            IN IF n.tag = "Ok" THEN Ok(Named(n.value))
                               ELSE Err(Wrap("InvalidRealmName", n.error))
                      [] prefix = <<"temporary">> ->
                            LET c == InvitationId_from_str(value)
                            IN IF c.tag = "Ok" THEN Ok(Temporary(c.value))
                               ELSE Err(Wrap("InvalidTemporaryRealmInvitationId", c.error))
                      [] OTHER -> Err(Kind("Prefix"))

\* ------------------------------------------------------------------- keys
ClaimKey_fmt(self) == self.name \o <<self.aggregation>>

\* Mutant: the name ends at the first '/' instead of the last.
ClaimKey_from_str_first_slash(s) ==
    LET p == split_once(s)
    IN IF p.tag = "None" THEN Err(Kind("MissingSlash"))
       ELSE LET name == ClaimName_from_str(p.value.left)
                aggregation == ClaimAggregation_from_str(p.value.right)
            IN IF name.tag = "Err" THEN Err(Wrap("Name", name.error))
               ELSE IF aggregation.tag = "Err" THEN Err(Wrap("Aggregation", aggregation.error))
               ELSE Ok(ClaimKey(name.value, aggregation.value))

ClaimKey_from_str(s) ==
    LET p == rsplit_once(s)
    IN IF p.tag = "None" THEN Err(Kind("MissingSlash"))
       ELSE LET name == ClaimName_from_str(p.value.left)
                aggregation == ClaimAggregation_from_str(p.value.right)
            IN IF name.tag = "Err" THEN Err(Wrap("Name", name.error))
               ELSE IF aggregation.tag = "Err" THEN Err(Wrap("Aggregation", aggregation.error))
               ELSE Ok(ClaimKey(name.value, aggregation.value))

GameClaimKey_fmt(self) == self.game_id \o ClaimKey_fmt(self.key)

GameClaimKey_from_str(s) ==
    LET p == split_once(s)
    IN IF p.tag = "None" THEN Err(Kind("MissingSlash"))
       ELSE LET game_id == GameId_from_str(p.value.left)
                key == ClaimKey_from_str(p.value.right)
            IN IF game_id.tag = "Err" THEN Err(Wrap("GameId", game_id.error))
               ELSE IF key.tag = "Err" THEN Err(Wrap("Key", key.error))
               ELSE Ok(GameClaimKey(game_id.value, key.value))

RealmClaimKey_fmt(self) == RealmId_fmt(self.realm_id) \o GameClaimKey_fmt(self.key)

RealmClaimKey_from_str(s) ==
    LET p == split_once_nth(s, 2)
    IN IF p.tag = "Panic" THEN Panic
       ELSE IF p.tag = "None" THEN Err(Kind("MissingSlash"))
       ELSE LET realm_id == RealmId_from_str(p.value.left)
                key == GameClaimKey_from_str(p.value.right)
            IN IF realm_id.tag = "Err" THEN Err(Wrap("RealmId", realm_id.error))
               ELSE IF key.tag = "Err" THEN Err(Wrap("Key", key.error))
               ELSE Ok(RealmClaimKey(realm_id.value, key.value))

ScopeClaimKey_fmt(self) == <<self.scope>> \o ClaimKey_fmt(self.key)

ScopeClaimKey_from_str(s) ==
    LET p == split_once(s)
    IN IF p.tag = "None" THEN Err(Kind("MissingSlash"))
       ELSE LET scope == ClaimScope_from_str(p.value.left)
                key == ClaimKey_from_str(p.value.right)
            IN IF scope.tag = "Err" THEN Err(Wrap("Scope", scope.error))
               ELSE IF key.tag = "Err" THEN Err(Wrap("Key", key.error))
               ELSE Ok(ScopeClaimKey(scope.value, key.value))

\* ----------------------------------------------------------------- values
ClaimValue_fmt(self) ==
    IF self.date_expires # None
    THEN u64_fmt(self.value) \o NonZeroUnixMillis_fmt(self.date_updated)
             \o NonZeroUnixMillis_fmt(self.date_expires)
    ELSE u64_fmt(self.value) \o NonZeroUnixMillis_fmt(self.date_updated)

ClaimValue_from_str(s) ==
    LET p == split_once(s)
    IN IF p.tag = "None" THEN Err(Kind("MissingSlash"))
       ELSE LET dates == p.value.right
                q == split_once(dates)
                value == u64_from_str(p.value.left)
            IN IF q.tag = "Some"
               THEN LET date_updated == NonZeroUnixMillis_from_str(q.value.left)
                        date_expires == NonZeroUnixMillis_from_str(q.value.right)
                    IN IF value.tag = "Err" THEN Err(Wrap("Value", value.error))
                       ELSE IF date_updated.tag = "Err"
                       THEN Err(Wrap("Updated", date_updated.error))
                       ELSE IF date_expires.tag = "Err"
                       THEN Err(Wrap("Expiration", date_expires.error))
                       ELSE Ok([date_expires |-> date_expires.value,
                                date_updated |-> date_updated.value,
                                value |-> value.value])
               ELSE LET date_updated == NonZeroUnixMillis_from_str(dates)
                    IN IF value.tag = "Err" THEN Err(Wrap("Value", value.error))
                       ELSE IF date_updated.tag = "Err"
                       THEN Err(Wrap("Updated", date_updated.error))
                       ELSE Ok([date_expires |-> None,
                                date_updated |-> date_updated.value,
                                value |-> value.value])

\* ------------------------------------------- formatting and parsing texts
TextTypes == {"ClaimKey", "GameClaimKey", "RealmClaimKey", "ScopeClaimKey", "ClaimValue"}

to_string(type, x) ==
    CASE type = "ClaimKey" -> ClaimKey_fmt(x)
      [] type = "GameClaimKey" -> GameClaimKey_fmt(x)
      [] type = "RealmClaimKey" -> RealmClaimKey_fmt(x)
      [] type = "ScopeClaimKey" -> ScopeClaimKey_fmt(x)
      [] type = "ClaimValue" -> ClaimValue_fmt(x)

from_str(type, s) ==
    CASE type = "ClaimKey" -> ClaimKey_from_str(s)
      [] type = "GameClaimKey" -> GameClaimKey_from_str(s)
      [] type = "RealmClaimKey" -> RealmClaimKey_from_str(s)
      [] type = "ScopeClaimKey" -> ScopeClaimKey_from_str(s)
      [] type = "ClaimValue" -> ClaimValue_from_str(s)

\* Valid values of each type: names with and without '/', the empty name, a
\* name longer than a game id may be; alphanumeric game ids; the three kinds
\* of realm id.
ClaimNames == {<<"high_score">>, <<"kills", "weekly">>, <<"">>, <<"longest_winning_streak">>}
GameIds == {<<"mk48">>, <<"kiomet">>}
RealmNames == {<<"lobby">>, <<"lobby", "weekly">>}
RealmIds ==
    {PublicDefault} \cup {Named(n) : n \in RealmNames}
        \cup {Temporary(InvitationCodes[i].id) : i \in DOMAIN InvitationCodes}
ClaimKeys == {ClaimKey(n, a) : n \in ClaimNames, a \in ClaimAggregation}
GameClaimKeys == {GameClaimKey(g, k) : g \in GameIds, k \in ClaimKeys}

Values(type) ==
    CASE type = "ClaimKey" -> ClaimKeys
      [] type = "GameClaimKey" -> GameClaimKeys
      [] type = "RealmClaimKey" -> {RealmClaimKey(r, k) : r \in RealmIds, k \in GameClaimKeys}
      [] type = "ScopeClaimKey" -> {ScopeClaimKey(c, k) : c \in ClaimScope, k \in ClaimKeys}
      [] type = "ClaimValue" -> ClaimValue

\* The pieces the texts handed to each parser are made of.
Alphabet(type) ==
    CASE type = "ClaimKey" ->
             {"", "high_score", "total_distance_travelled_in_meters", "Max", "Sum"}
      [] type = "GameClaimKey" ->
             {"mk48", "longest_winning_streak", "high_score", "Max", "Sum"}
      [] type = "RealmClaimKey" ->
             {"public", "default", "named", "temporary", "CDFHKK", "mk48", "high_score",
              "Max", "Sum", ""}
      [] type = "ScopeClaimKey" ->
             {"Game", "high_score", "total_distance_travelled_in_meters", "Max", "max"}
      [] type = "ClaimValue" -> {"0", "1", "2", "x", ""}

Texts(type) == UNION {[1..n -> Alphabet(type)] : n \in 1..MaxSegments}

\* Either a valid value is written with Display and the text parsed back, or
\* an arbitrary text is handed to the parser.
InitText ==
    /\ claims = ClaimSet_default
    /\ clock = MIN
    /\ calls = << >>
    /\ redeliveries = 0
    /\ server = Idle
    /\ \E type \in TextTypes :
          \/ \E x \in Values(type) :
                cell = [type |-> type, typed |-> TRUE, x |-> x, text |-> << >>,
                        result |-> Nothing, pc |-> "value"]
          \/ \E s \in Texts(type) :
                cell = [type |-> type, typed |-> FALSE, x |-> Nothing, text |-> s,
                        result |-> Nothing, pc |-> "text"]

Format ==
    /\ cell.pc = "value"
    /\ cell' = [cell EXCEPT !.text = to_string(cell.type, cell.x), !.pc = "text"]
    /\ UNCHANGED <<claims, clock, calls, redeliveries, server>>

Parse ==
    /\ cell.pc = "text"
    /\ cell' = [cell EXCEPT !.result = from_str(cell.type, cell.text), !.pc = "done"]
    /\ UNCHANGED <<claims, clock, calls, redeliveries, server>>

NextText == Format \/ Parse

SpecText == InitText /\ [][NextText]_vars

\* --------------------------------------------------- claims on the texts
\* The text of a cell was parsed as the given type.
Parsed(type) == cell.pc = "done" /\ cell.type = type

\* The value of a cell was written and its text parsed back.
RoundTripped(type) == Parsed(type) /\ cell.typed

\* The parser returned exactly the value v.
Returned(v) == cell.result.tag = "Ok" /\ cell.result.value = v

\* C26: parsing the text written for a RealmClaimKey returns the original
\* key, and "public/default/mk48/high_score/Max" parses to realm
\* public/default, game mk48, key high_score/Max.
C26_RealmKeyRoundTrip ==
    /\ RoundTripped("RealmClaimKey") => Returned(cell.x)
    /\ (Parsed("RealmClaimKey")
            /\ cell.text = <<"public", "default", "mk48", "high_score", "Max">>)
       => Returned(RealmClaimKey(PublicDefault,
                       GameClaimKey(<<"mk48">>, ClaimKey(<<"high_score">>, "Max"))))

\* C27: parsing the text written for a valid ClaimKey, GameClaimKey,
\* ScopeClaimKey or ClaimValue returns a value equal to the original, and the
\* parsed ClaimValue has no date_expires exactly when its text has two fields.
C27_RoundTrip ==
    \A type \in {"ClaimKey", "GameClaimKey", "ScopeClaimKey", "ClaimValue"} :
        RoundTripped(type) =>
            /\ Returned(cell.x)
            /\ type = "ClaimValue" =>
                  (cell.result.value.date_expires = None <=> Len(cell.text) = 2)

\* A GameClaimKey whose name contains a '/' came back from its text.
C27_Witness ==
    /\ RoundTripped("GameClaimKey")
    /\ Len(cell.x.key.name) > 1
    /\ Returned(cell.x)

\* C28: every parse ends with a value or with an error value; none aborts.
C28_ParsingNonFatal ==
    cell.pc = "done" => cell.result.tag \in {"Ok", "Err"}

\* The kinds of an error, from the outermost to the innermost.
RECURSIVE KindPath(_)
KindPath(e) ==
    IF "inner" \in DOMAIN e THEN <<e.kind>> \o KindPath(e.inner) ELSE <<e.kind>>

IsPrefix(a, b) == Len(a) <= Len(b) /\ SubSeq(b, 1, Len(a)) = a

\* A piece that is no decimal numeral.
NonNumeric(t) == \A i \in DOMAIN Digits : Digits[i] # t

\* The component a reader of the formats blames in a malformed text, as the
\* kinds its error must carry (<< >> when the formats name no culprit):
\* '<name>/<aggregation>',
BlameKey(s) ==
    IF Len(s) < 2 THEN <<"MissingSlash">>
    ELSE IF ByteLen(SubSeq(s, 1, Len(s) - 1)) > ClaimName_CAP THEN <<"Name">>
    ELSE IF s[Len(s)] \notin ClaimAggregation THEN <<"Aggregation">>
    ELSE << >>

\* '<game_id>/<claim_key>',
BlameGameKey(s) ==
    IF Len(s) < 2 THEN <<"MissingSlash">>
    ELSE IF TokenLen(s[1]) > GameId_CAP THEN <<"GameId">>
    ELSE IF BlameKey(Tail(s)) # << >> THEN <<"Key">> \o BlameKey(Tail(s))
    ELSE << >>

\* '<scope>/<claim_key>',
BlameScopeKey(s) ==
    IF Len(s) < 2 THEN <<"MissingSlash">>
    ELSE IF s[1] \notin ClaimScope THEN <<"Scope">>
    ELSE IF BlameKey(Tail(s)) # << >> THEN <<"Key">> \o BlameKey(Tail(s))
    ELSE << >>

\* '<realm_id>/<game_id>/<name>/<aggregation>', the realm id being the first
\* two pieces,
BlameRealmKey(s) ==
    IF Len(s) < 2 THEN <<"MissingSlash">>
    ELSE IF Len(s) = 2 THEN << >>
    ELSE IF RealmId_from_str(SubSeq(s, 1, 2)).tag = "Err" THEN <<"RealmId">>
    ELSE IF BlameGameKey(SubSeq(s, 3, Len(s))) # << >>
    THEN <<"Key">> \o BlameGameKey(SubSeq(s, 3, Len(s)))
    ELSE << >>

\* '<value>/<date_updated>' or '<value>/<date_updated>/<date_expires>'.
BlameValue(s) ==
    IF Len(s) < 2 THEN <<"MissingSlash">>
    ELSE IF NonNumeric(s[1]) THEN <<"Value">>
    ELSE IF NonNumeric(s[2]) THEN <<"Updated">>
    ELSE IF NonZeroUnixMillis_from_str(<<s[2]>>).tag = "Err" THEN << >>
    ELSE IF Len(s) > 3 \/ (Len(s) = 3 /\ NonNumeric(s[3])) THEN <<"Expiration">>
    ELSE << >>

Blame(type, s) ==
    CASE type = "ClaimKey" -> BlameKey(s)
      [] type = "GameClaimKey" -> BlameGameKey(s)
      [] type = "RealmClaimKey" -> BlameRealmKey(s)
      [] type = "ScopeClaimKey" -> BlameScopeKey(s)
      [] type = "ClaimValue" -> BlameValue(s)

\* C29: the error of a parse names the failing component: MissingSlash for a
\* text without '/', Name or Aggregation for a ClaimKey, Value, Updated or
\* Expiration for a ClaimValue, and for the composite keys their own kind for
\* a bad game id, realm id or scope and otherwise the wrapped error of the
\* nested key.
C29_ErrorsNameComponent ==
    (cell.pc = "done" /\ Blame(cell.type, cell.text) # << >>) =>
        /\ cell.result.tag = "Err"
        /\ IsPrefix(Blame(cell.type, cell.text), KindPath(cell.result.error))

\* ====================================================== well-known keys
\* ClaimName::new: the parse of the name, unwrapped.
ClaimName_new(s) == IF Len(s) > ClaimName_CAP THEN Panic ELSE s

\* SkuId is written as its number.
SkuId == 1..MaxSku
SkuId_fmt(sku_id) == ToString(sku_id)

\* Mutant: the days of a game are aggregated with Min.
days_min == ScopeClaimKey("Game", ClaimKey("days", "Min"))

days == ScopeClaimKey("Game", ClaimKey("days", "Max"))
kills == ScopeClaimKey("Game", ClaimKey("kills", "Max"))
superior_kills == ScopeClaimKey("Game", ClaimKey("superior_kills", "Max"))
inferior_kills == ScopeClaimKey("Game", ClaimKey("inferior_kills", "Max"))
victories == ScopeClaimKey("Game", ClaimKey("victories", "Max"))
superior_victories == ScopeClaimKey("Game", ClaimKey("superior_victories", "Max"))
inferior_victories == ScopeClaimKey("Game", ClaimKey("inferior_victories", "Max"))
announcement_preference == ScopeClaimKey("Global", ClaimKey("announcement_preference", "New"))

product(scope, sku_id) ==
    ScopeClaimKey(scope, ClaimKey(ClaimName_new("product_" \o SkuId_fmt(sku_id)), "Max"))

\* The calls of the constructors: the constructor and its arguments.
Constructors ==
    {"high_score", "rank", "streak", "days", "kills", "superior_kills", "inferior_kills",
     "victories", "superior_victories", "inferior_victories", "announcement_preference"}

ConstructorCalls ==
    {[constructor |-> c, args |-> << >>] : c \in Constructors}
        \cup {[constructor |-> "product", args |-> <<scope, sku_id>>] :
                 scope \in ClaimScope, sku_id \in SkuId}

Construct(call) ==
    CASE call.constructor = "high_score" -> high_score
      [] call.constructor = "rank" -> rank
      [] call.constructor = "streak" -> streak
      [] call.constructor = "days" -> days
      [] call.constructor = "kills" -> kills
      [] call.constructor = "superior_kills" -> superior_kills
      [] call.constructor = "inferior_kills" -> inferior_kills
      [] call.constructor = "victories" -> victories
      [] call.constructor = "superior_victories" -> superior_victories
      [] call.constructor = "inferior_victories" -> inferior_victories
      [] call.constructor = "announcement_preference" -> announcement_preference
      [] call.constructor = "product" -> product(call.args[1], call.args[2])

\* Code that builds keys calls the constructors, each call returning a key.
InitKeys ==
    /\ claims = ClaimSet_default
    /\ clock = MIN
    /\ calls = << >>
    /\ redeliveries = 0
    /\ server = Idle
    /\ cell = [made |-> << >>]

Make ==
    /\ Len(cell.made) < MaxMade
    /\ \E call \in ConstructorCalls :
          cell' = [made |-> Append(cell.made, [call |-> call, key |-> Construct(call)])]
    /\ UNCHANGED <<claims, clock, calls, redeliveries, server>>

NextKeys == Make

SpecKeys == InitKeys /\ [][NextKeys]_vars

\* ------------------------------------------- claims on the well-known keys
\* The (scope, name, aggregation) the table of well-known claims gives a call.
WellKnown(call) ==
    CASE call.constructor \in {"streak"} -> <<"Global", call.constructor, "Max">>
      [] call.constructor \in {"announcement_preference"} -> <<"Global", call.constructor, "New">>
      [] call.constructor \in {"rank"} -> <<"Game", call.constructor, "New">>
      [] call.constructor = "product" ->
            <<call.args[1], "product_" \o ToString(call.args[2]), "Max">>
      [] OTHER -> <<"Game", call.constructor, "Max">>

\* C32: every well-known constructor returns the scope, name and aggregation
\* of the table, the same key on every call, and no name is ever given two
\* aggregations.
C32_WellKnownKeys ==
    \A i \in DOMAIN cell.made :
        LET m == cell.made[i]
        IN /\ <<m.key.scope, m.key.key.name, m.key.key.aggregation>> = WellKnown(m.call)
           /\ \A j \in DOMAIN cell.made :
                 /\ cell.made[j].call = m.call => cell.made[j].key = m.key
                 /\ cell.made[j].key.key.name = m.key.key.name
                       => cell.made[j].key.key.aggregation = m.key.key.aggregation

\* product is called twice with the same scope and sku and returns the same
\* key both times.
C32_Witness ==
    /\ Len(cell.made) = 2
    /\ cell.made[1].call.constructor = "product"
    /\ cell.made[2].call = cell.made[1].call
    /\ cell.made[2].key = cell.made[1].key
    /\ cell.made[1].key.key.aggregation = "Max"

\* ========================================================== InvitationId
\* A code is the sequence of its characters.
ALPHABET == <<"C", "D", "F", "H", "J", "K", "L", "M", "N", "P", "R", "T", "V", "W", "X", "Y">>
ALPHABET_SIZE == 4
U8_BITS == 8
U16_BITS == 16

RECURSIVE Pow2(_)
Pow2(k) == IF k = 0 THEN 1 ELSE 2 * Pow2(k - 1)

\* The loop of Display::fmt from iteration i on, n being what is left of the
\* number: one character per iteration, rotated by i (n has 24 bits, so
\* n.wrapping_add(i) does not wrap its 32).
RECURSIVE WriteChars(_, _)
WriteChars(n, i) ==
    IF i = CODE_LEN THEN << >>
    ELSE <<ALPHABET[((n + i) % Len(ALPHABET)) + 1]>>
             \o WriteChars(n \div Pow2(ALPHABET_SIZE), i + 1)

InvitationId_to_string(self) ==
    WriteChars(self.server_number * Pow2(U16_BITS) + self.number, 0)

\* The position of a byte in ALPHABET, counted from zero.
Position(c) == (CHOOSE p \in DOMAIN ALPHABET : ALPHABET[p] = c) - 1

\* Mutant: the rotation of the characters is not undone.
RECURSIVE ReadChars_unrotated(_, _, _)
ReadChars_unrotated(code, i, ret) ==
    IF i < 0 THEN Ok(ret)
    ELSE IF \A p \in DOMAIN ALPHABET : ALPHABET[p] # code[i + 1] THEN Err(Kind("Character"))
    ELSE ReadChars_unrotated(code, i - 1,
                             ret * Pow2(ALPHABET_SIZE) + (Position(code[i + 1]) % Len(ALPHABET)))

\* The loop of from_str over the bytes of the code in reverse, from index i
\* down, ret being the number read so far.  raw_position.wrapping_sub(i) is
\* taken modulo the 16 letters, which divide the range of usize.
RECURSIVE ReadChars(_, _, _)
ReadChars(code, i, ret) ==
    IF i < 0 THEN Ok(ret)
    ELSE IF \A p \in DOMAIN ALPHABET : ALPHABET[p] # code[i + 1] THEN Err(Kind("Character"))
    ELSE ReadChars(code, i - 1,
                   ret * Pow2(ALPHABET_SIZE) + ((Position(code[i + 1]) - i) % Len(ALPHABET)))

InvitationId_from_code(code) ==
    IF Len(code) # CODE_LEN THEN Err(Kind("Length"))
    ELSE LET ret == ReadChars(code, CODE_LEN - 1, 0)
         IN IF ret.tag = "Err" THEN ret
            ELSE LET server_number == (ret.value \div Pow2(U16_BITS)) % Pow2(U8_BITS)
                 IN IF server_number = 0 THEN Err(Kind("ZeroServerNumber"))
                    ELSE Ok([server_number |-> server_number,
                             number |-> ret.value % Pow2(U16_BITS)])

\* Every server number, and the numbers that put each of the values up to
\* MaxNibble in each of the four nibbles, from both ends of the u16 range.
ServerNumbers == 1..(Pow2(U8_BITS) - 1)
Numbers ==
    {n \in UNION {{k * Pow2(ALPHABET_SIZE * j), Pow2(U16_BITS) - 1 - k * Pow2(ALPHABET_SIZE * j)} :
                      k \in 0..MaxNibble, j \in 0..3} :
        0 <= n /\ n < Pow2(U16_BITS)}
InvitationIds == [server_number : ServerNumbers, number : Numbers]

\* An invitation is written as its code and the code is read back.
InitInvite ==
    /\ claims = ClaimSet_default
    /\ clock = MIN
    /\ calls = << >>
    /\ redeliveries = 0
    /\ server = Idle
    /\ \E id \in InvitationIds :
          cell = [id |-> id, code |-> << >>, result |-> Nothing, pc |-> "id"]

ToCode ==
    /\ cell.pc = "id"
    /\ cell' = [cell EXCEPT !.code = InvitationId_to_string(cell.id), !.pc = "code"]
    /\ UNCHANGED <<claims, clock, calls, redeliveries, server>>

FromCode ==
    /\ cell.pc = "code"
    /\ cell' = [cell EXCEPT !.result = InvitationId_from_code(cell.code), !.pc = "done"]
    /\ UNCHANGED <<claims, clock, calls, redeliveries, server>>

NextInvite == ToCode \/ FromCode

SpecInvite == InitInvite /\ [][NextInvite]_vars

\* C33: the code written for an InvitationId has six characters of the
\* alphabet, and reading it returns the InvitationId.
C33_InvitationRoundTrip ==
    /\ cell.pc # "id" =>
          /\ Len(cell.code) = 6
          /\ \A i \in DOMAIN cell.code : \E p \in DOMAIN ALPHABET : ALPHABET[p] = cell.code[i]
    /\ cell.pc = "done" =>
          /\ cell.result.tag = "Ok"
          /\ cell.result.value = cell.id

\* The invitation with the greatest server number and number came back from
\* a code whose characters are not all alike.
C33_Witness ==
    /\ cell.pc = "done"
    /\ cell.id = [server_number |-> 255, number |-> 65535]
    /\ cell.result.tag = "Ok"
    /\ cell.result.value = cell.id
    /\ cell.code[1] # cell.code[2]

\* ============================================================== PlayerId
U16_MAX == 65535

\* u16::try_from(usize), u16::checked_mul, u16::checked_add, NonZeroU16::new.
u16_try_from(n) == IF n > U16_MAX THEN Nothing ELSE Some(n)
checked_mul(a, b) == IF a * b > U16_MAX THEN Nothing ELSE Some(a * b)
checked_add(a, b) == IF a + b > U16_MAX THEN Nothing ELSE Some(a + b)
NonZeroU16_new(x) == IF x = 0 THEN Nothing ELSE Some(x)

PlayerId_nth_client(n) ==
    LET a == u16_try_from(n)
    IN IF a.tag = "None" THEN Nothing
       ELSE LET b == checked_mul(a.value, 2)
            IN IF b.tag = "None" THEN Nothing
               ELSE LET c == checked_add(b.value, 1)
                    IN IF c.tag = "None" THEN Nothing ELSE NonZeroU16_new(c.value)

\* Mutant: the arithmetic wraps in 16 bits instead of giving up.
PlayerId_nth_bot_wrapping(n) ==
    NonZeroU16_new((((n % (U16_MAX + 1)) + 1) * 2) % (U16_MAX + 1))

PlayerId_nth_bot(n) ==
    LET a == u16_try_from(n)
    IN IF a.tag = "None" THEN Nothing
       ELSE LET b == checked_add(a.value, 1)
            IN IF b.tag = "None" THEN Nothing
               ELSE LET c == checked_mul(b.value, 2)
                    IN IF c.tag = "None" THEN Nothing ELSE NonZeroU16_new(c.value)

is_bot(self) == self % 2 = 0
is_client(self) == self % 2 = 1

\* The indices asked for: those within MaxOffset of the first index, of the
\* last index whose id fits, of the last index that is a u16 and of the end
\* of the range the tests walk.
Indices ==
    {n \in UNION {{b - d, b + d} : b \in {0, U16_MAX \div 2, U16_MAX, 2 * U16_MAX},
                                   d \in 0..MaxOffset} : n >= 0}

Pending == [tag |-> "Pending"]

InitPlayer ==
    /\ claims = ClaimSet_default
    /\ clock = MIN
    /\ calls = << >>
    /\ redeliveries = 0
    /\ server = Idle
    /\ \E n \in Indices : cell = [n |-> n, bot |-> Pending, client |-> Pending]

NthBot ==
    /\ cell.bot = Pending
    /\ cell' = [cell EXCEPT !.bot = PlayerId_nth_bot(cell.n)]
    /\ UNCHANGED <<claims, clock, calls, redeliveries, server>>

NthClient ==
    /\ cell.client = Pending
    /\ cell' = [cell EXCEPT !.client = PlayerId_nth_client(cell.n)]
    /\ UNCHANGED <<claims, clock, calls, redeliveries, server>>

NextPlayer == NthBot \/ NthClient

SpecPlayer == InitPlayer /\ [][NextPlayer]_vars

\* C34: nth_bot(n) returns the even id 2(n + 1) and nth_client(n) the odd id
\* 2n + 1 when that id fits in 16 bits and None otherwise, and no id
\* returned is both a bot and a client.
C34_PlayerIdParity ==
    /\ cell.bot.tag = "Some" =>
          /\ is_bot(cell.bot.value) /\ ~is_client(cell.bot.value)
          /\ cell.bot.value = 2 * (cell.n + 1)
          /\ cell.bot.value <= 65535
    /\ cell.bot.tag = "None" => 2 * (cell.n + 1) > 65535
    /\ cell.client.tag = "Some" =>
          /\ is_client(cell.client.value) /\ ~is_bot(cell.client.value)
          /\ cell.client.value = 2 * cell.n + 1
          /\ cell.client.value <= 65535
    /\ cell.client.tag = "None" => 2 * cell.n + 1 > 65535

\* The last index with a client id has no bot id.
C34_Witness ==
    /\ cell.client.tag = "Some"
    /\ cell.client.value = 65535
    /\ cell.bot.tag = "None"

====
